---- MODULE Spec2Model ----
(***************************************************************************)
(* A model of the core of one tera tablet server:                          *)
(*   - the LSM engine of one locality group (leveldb::DBImpl): writer      *)
(*     queue, memtable switch, background flush / compaction, Get,         *)
(*     snapshots, rollbacks, background error handling;                    *)
(*   - the compaction loop DBImpl::HandleCompactionWork as a function of   *)
(*     its input;                                                          *)
(*   - DBImpl::Recover's lost-file check;                                  *)
(*   - TabletNodeImpl's LoadTablet / UnloadTablet / WriteTablet /          *)
(*     CompactTablet with the session id check.                            *)
(* Each part has its own specification (SpecEngine, SpecCompact,           *)
(* SpecRecover, SpecNode); the variables of the other parts stay at their  *)
(* initial values.                                                         *)
(***************************************************************************)
EXTENDS Integers, Sequences, FiniteSets, TLC

(***************************************************************************)
(* Bounds of the model.                                                    *)
(***************************************************************************)
\* number of DBImpl::Write calls made on the engine
MaxWrites == 3
\* number of user keys written to the engine
NumKeys == 1
\* number of DBImpl::Get calls made on the engine
MaxGets == 1
\* number of GetSnapshot calls and of Rollback calls made on the engine
MaxSnapshots == 1
MaxRollbacks == 1
\* number of failures the environment injects into background tasks
MaxFailures == 6
\* number of table files per tablet directory and of tablet directories that
\* a recovered version names
RecoverFiles == 2
RecoverTablets == 2
\* tablet server: number of concurrent request handlers, number of row keys
\* of the table, length of a session id and size of its alphabet
NumHandlers == 2
MaxKey == 2
MaxSessionLen == 2
SessionChars == 1
\* number of entries in the input of a compaction run, and of user keys in it
MaxEntries == 3
CompactKeys == 2
\* options_.write_buffer_size, counted in entries of the memtable
write_buffer_size == 0
\* options_.max_background_compactions
max_background_compactions == 2
\* config::kL0_SlowdownWritesTrigger and config::kL0_StopWritesTrigger,
\* scaled down (level-0 files are counted in flushes)
kL0_CompactionTrigger == 1
kL0_SlowdownWritesTrigger == 2
kL0_StopWritesTrigger == 3
\* the literal 100000 of BackgroundCall, scaled down: the number of
\* consecutive failures after which the error is stored in bg_error_
kMaxConsecutiveErrors == 5

\* block cache: concurrent calls of Read on the block, Read calls in all, and
\* I/O failures the environment injects
NumReaders == 2
MaxReads == 3
NumAllocators == 2
fid_batch_num == 2
MaxAllocs == 5
MaxRestarts == 2
MaxPutFailures == 1
block_size == 3
MaxOffset == 7
MaxReadSize == 7
NumWriteRows == 2
NumWriteTablets == 2
MaxDemands == 3
MaxDemandPriority == 4
MaxCacheFailures == 1

\* block cache meta db: concurrent opens of the path, and opens in all
NumOpeners == 2
MaxOpens == 3
MaxGcCycles == 3
MaxRows == 2
NumShards == 2
RowsPerShard == 2
MaxReadThreads == 3
MaxRatioQuarters == 6

\* parallel compaction: the sub-compactions of a compaction, the entries of
\* its input, the file numbers NewFileNumber hands out and the memtables the
\* engine creates during the run
NumSub == 2
ParEntries == 2
MaxFileNumber == 4
MaxMemTables == 2

\* kMaxSequenceNumber: larger than every sequence number the model stamps
kMaxSequenceNumber == MaxWrites + 100

Max(a, b) == IF a >= b THEN a ELSE b
Min(a, b) == IF a <= b THEN a ELSE b
Range(s) == {s[i] : i \in 1..Len(s)}

(***************************************************************************)
(* Status values (leveldb::Status).                                        *)
(***************************************************************************)
OK == "OK"
IOError == "IOError"
IOPermissionDenied == "IOPermissionDenied"
Corruption == "Corruption"
TimeOut == "TimeOut"
\* Status::IsIOPermissionDenied
IsIOPermissionDenied(s) == s = IOPermissionDenied

(***************************************************************************)
(* State of the other parts of the model (declared here so that every      *)
(* action can leave the parts it does not belong to unchanged).            *)
(***************************************************************************)
VARIABLES
    \* one run of DBImpl::ParallelCompaction over a given input
    cpc,            \* ready, done, installed
    cinput,         \* the entries of the input files, in internal-key order
    csmallest,      \* smallest_snapshot
    crollbacks,     \* rollbacks_
    copts,          \* the options and the answers of the version / strategy
    cbound,         \* the boundary index of the sub-compactions
    cfail,          \* the outcome of writing the output files
    coutputs,       \* the entries written to the output files, in order
    cstatus,        \* the Status of the compaction
    cversion        \* the entries of the files in the version

compactVars == <<cpc, cinput, csmallest, crollbacks, copts, cbound, cfail,
                 coutputs, cstatus, cversion>>

VARIABLES
    \* one run of DBImpl::Recover
    vpc,            \* ready, done
    vopt,           \* options_.ignore_corruption_in_open
    vpre,           \* the Status of the steps before the lost-file check
    vlive,          \* versions_->AddLiveFiles: pairs <<tablet, file number>>
    vdfs,           \* the table files each tablet directory holds on the DFS
    vlist,          \* the outcome of GetChildren for each tablet directory
    vedit,          \* the files the edit deletes
    vstate,         \* state_
    vstatus         \* the Status Recover returned

recoverVars == <<vpc, vopt, vpre, vlive, vdfs, vlist, vedit, vstate, vstatus>>

VARIABLES
    \* the tablet server (TabletNodeImpl and its TabletManager)
    session_id_,    \* the server's session id, a string
    tablet_list_,   \* the manager's map: the registered tablets
    hpc,            \* position of each request handler: idle, load, unload, remove
    hreq,           \* the request a handler is working on
    reply           \* the last response sent

nodeVars == <<session_id_, tablet_list_, hpc, hreq, reply>>

VARIABLES
    \* one block of a table file in the block cache (BlockCacheImpl) and the
    \* calls of BlockCacheRandomAccessFile::Read on it
    fphase,         \* the file: writing (BlockCacheWritableFile), closed
    bflags,         \* CacheBlock::state: the set of flags that are set
    bs,             \* CacheBlock::s
    bbuf,           \* CacheBlock::data_block: none, or the bytes it holds
    brefs,          \* CacheBlock::data_block_refs
    ssd,            \* the bytes of the block's slot in the data set file
    metaValid,      \* the Valid bit of the block's DS# record in the meta db
    rdpc,           \* position of each Read call
    rdkind,         \* the list Read put the block on: miss, valid, locked
    rds,            \* Read's local Status s
    rdres,          \* the bytes Read copied to the user
    rdsaw,          \* history: the block was Valid at some point of the Read
    nReads,         \* Read calls started
    cacheFailuresLeft   \* I/O failures the environment may still inject

cacheVars == <<fphase, bflags, bs, bbuf, brefs, ssd, metaValid, rdpc, rdkind, rds,
               rdres, rdsaw, nReads, cacheFailuresLeft>>

VARIABLES
    \* the file ids of the block cache (BlockCacheImpl's meta db) for one path
    fname_fid,      \* the FNAME# record of the path: its fid, 0 if there is none
    new_fid_,
    lock_key_,      \* the path's entry of lock_key_: [exists, done, wait_num]
    opc,            \* position of each FileId call (file open)
    ofid,           \* the fid the open file holds (fid_)
    blockKeys,      \* the fids that have a block in a data set's cache
    dsRecords,      \* the fids that DS# records of the meta db carry
    dpc,            \* position of the DeleteFile call
    dfid,           \* history: the fid of the path when DeleteFile was called
    dlocked,        \* history: DeleteFile took the key's lock itself
    nOpens

metaVars == <<fname_fid, new_fid_, lock_key_, opc, ofid, blockKeys, dsRecords, dpc,
              dfid, dlocked, nOpens>>

VARIABLES
    \* the garbage collection of the tablet server (TabletNodeImpl::GarbageCollect)
    \* over the tablet directories of one table
    gtablets,       \* the manager's tablets of the table: absent, loading, ready
    ginherits,      \* the files each tablet's engines inherit (other directories')
    pcache,         \* the keys of the persistent cache
    flash,          \* the files of the local cache directory (flash or mem env)
    delayed_gc_files_,
    gcEvictedLive,  \* history: keys force-evicted while a tablet used them
    gcDeletedLive,  \* history: files deleted while a tablet used them
    nCycles         \* GarbageCollect calls made

gcVars == <<gtablets, ginherits, pcache, flash, delayed_gc_files_, gcEvictedLive,
            gcDeletedLive, nCycles>>

VARIABLES
    \* one batch read (ReadTabletTask) split into shards
    deadline_passed,    \* GetTimeStampInMs() has reached end_time_ms_
    row_has_tablet,     \* for each row: GetTablet finds a tablet for its key
    shpc,               \* position of each shard: queued, run, finish, done
    shindex,            \* DoRead's index, counted from the shard's offset
    row_status,         \* response_->detail().status(index); none if never set
    has_timeout_,
    finished_,
    resp_status,        \* response_->status(); none until done_->Run()
    rowsAfterTimeout,   \* history: rows each shard handled with has_timeout_ set
    passedAtWork        \* history: the deadline passed before the response

shardVars == <<deadline_passed, row_has_tablet, shpc, shindex, row_status,
               has_timeout_, finished_, resp_status, rowsAfterTimeout, passedAtWork>>

VARIABLES
    \* the limiter of remote reads (DfsReadThreadLimiter) and the read pool
    read_thread_num,    \* FLAGS_tera_tabletnode_read_thread_num
    ratio4,             \* FLAGS_dfs_read_thread_ratio, in quarters
    limit_,             \* the limit SetLimit stored
    tpc,                \* each thread of the read pool: idle, dfs (remote read)
    tlast,              \* the Status of the thread's last remote read
    dfsRunning          \* remote reads in progress

limiterVars == <<read_thread_num, ratio4, limit_, tpc, tlast, dfsRunning>>

VARIABLES
    \* the shutdown of one engine by the unload of its tablet
    sdpc,           \* position of the unload: kOpened, the steps of Shutdown1,
                    \* kShutdown1, kUnLoading2, the steps of Shutdown2, kShutdown2
    sdump           \* options_.dump_mem_on_shutdown

shutVars == <<sdpc, sdump>>

VARIABLES
    \* one run of DBImpl::ParallelCompaction next to a flushing thread
    pmain,              \* position of ParallelCompaction: ready, workers, install,
                        \* dof_list, dof_live, dof_delete, done
    pinput,             \* what the input iterator over the input files yields
    pbound,             \* the boundary user key of the two sub-compactions
    psmallest,          \* smallest_snapshot as ParallelCompaction read it
    wk,                 \* each sub-compaction: [pc, pos, st, status, number]
    pstatus,            \* the Status of the compaction
    pending_outputs_,
    next_file_number_,  \* versions_->NewFileNumber()
    dfiles,             \* the table files in the directory of the engine
    vfiles,             \* the table files of the live versions
    fl,                 \* each thread's CompactMemTable call: [pc, number]
    dof,                \* DeleteObsoleteFiles: [filenames, live]
    \* history variables
    pedits,             \* version edits the compaction has applied
    shardsAtInstall,    \* the sub-compactions that had finished when it was applied
    deletedLive,        \* the files deleted while live or pending
    pw,                 \* the head writer: idle, insert (InsertInto outside the mutex)
    addedToImm,         \* an entry has been inserted into the immutable memtable
    keptRolledBack      \* entries written to an output although rollbacks_
                        \* covered them when they were processed

parVars == <<pmain, pinput, pbound, psmallest, wk, pstatus, pending_outputs_,
             next_file_number_, dfiles, vfiles, fl, dof, pedits, shardsAtInstall,
             deletedLive, pw, addedToImm, keptRolledBack>>

VARIABLES
    \* the file-id counter of the block cache (AllocFileId, LoadCache)
    prev_fid_,      \* the FID# value the cache last read or wrote
    fid_record,     \* the FID# record of the meta db, 0 if there is none
    lock_fid,       \* the entry of lock_key_ for the key FID#: [wait_num, done]
    amu,            \* the thread that holds mu_, 0 if none
    apc,            \* each thread's position in AllocFileId
    afid,           \* each thread's fid
    alockval,       \* each thread's lock_val
    aval,           \* each thread's val after LockAndPut, 0 if its status is not ok
    \* history variables
    granted,        \* the ids AllocFileId has returned, over all runs of the server
    grantedBefore,  \* those returned before the last restart
    reusedFid,      \* an id has been returned a second time
    nAllocs, nRestarts, putFailuresLeft

VARIABLES
    \* one BlockCacheRandomAccessFile::Read as a split into blocks
    roffset, rn,    \* the arguments offset and n
    spc,            \* position of the Read: queue, fill, done
    block_idx,      \* the block index of the loop
    block_queue,    \* the block indexes looked up, in order
    msize           \* the bytes copied to scratch

splitVars == <<roffset, rn, spc, block_idx, block_queue, msize>>

VARIABLES
    \* one batch write (TabletNodeImpl::WriteTablet) split into tablet tasks
    row_tablet,         \* for each row the tablet GetTablet finds, 0 for NULL
    wtask,              \* each tablet's WriteTabletTask: none, queued, pending,
                        \* fail, add, done
    wsync,              \* the task whose callback WriteTablet itself runs, 0 if none
    wrow_status,        \* response->row_status_list(index); none if never set
    row_done_counter,
    wdone_runs          \* history: the calls of done->Run()

wbVars == <<row_tablet, wtask, wsync, wrow_status, row_done_counter, wdone_runs>>

VARIABLES
    \* the copy of one remote file to the flash mirror (FlashEnv)
    update_flash_waiting,   \* the file has an entry in update_flash_waiting_files_
    task_priority,          \* task.priority of that entry
    uftask,                 \* the task of the entry: none, scheduled, copying
    \* history variables
    demandPriority,         \* task.priority after the last ScheduleUpdateFlash
    failedCopies,           \* failed copies since the last ScheduleUpdateFlash
    demandsLeft

flashVars == <<update_flash_waiting, task_priority, uftask, demandPriority,
               failedCopies, demandsLeft>>

fidVars == <<prev_fid_, fid_record, lock_fid, amu, apc, afid, alockval, aval,
             granted, grantedBefore, reusedFid, nAllocs, nRestarts, putFailuresLeft>>

\* the parts of the block cache and of the flash environment added last
lastVars == <<fidVars, splitVars, wbVars, flashVars>>

\* the parts of the tablet server outside the tablet manager
laterVars == <<gcVars, shardVars, limiterVars, shutVars, parVars, lastVars>>

\* the parts added to the engine, the compaction run, Recover and the node
moreVars == <<cacheVars, metaVars, laterVars>>

(***************************************************************************)
(* Internal keys: (user_key, sequence, type), ordered by user_key          *)
(* ascending, then sequence descending.                                    *)
(***************************************************************************)
kTypeValue == "value"
kTypeDeletion == "deletion"

\* InternalKeyComparator::Compare(a, b) < 0
InternalKeyLess(a, b) ==
    \/ a.key < b.key
    \/ a.key = b.key /\ a.seq > b.seq

\* the entries of a set as the sequence a merging iterator yields
RECURSIVE SortedEntries(_)
SortedEntries(S) ==
    IF S = {} THEN <<>>
    ELSE LET first == CHOOSE e \in S : \A f \in S \ {e} : InternalKeyLess(e, f)
         IN  <<first>> \o SortedEntries(S \ {first})

\* RollbackDrop(seq, rollbacks): seq lies in a window (snapshot, rollback_point]
\* rollbacks is a set of pairs <<snapshot_seq, rollback_point>>
RollbackDrop(seq, rollbacks) ==
    \E r \in rollbacks : seq > r[1] /\ seq <= r[2]

(***************************************************************************)
(* DBImpl::HandleCompactionWork as a function of its input.                *)
(*   input     the entries the merging iterator yields, in internal-key    *)
(*             order                                                       *)
(*   smallest  compact->smallest_snapshot                                  *)
(*   rb        rollbacks_                                                  *)
(*   o         [drop_base_level_del : options_.drop_base_level_del_in_     *)
(*              compaction, base_keys : the user keys for which            *)
(*              IsBaseLevelForKey holds, strat_drop : the sequences for    *)
(*              which compact_strategy->Drop answers true ({} without a    *)
(*              strategy), bad : the sequence of the entry at which the    *)
(*              input iterator fails (0: none)]                            *)
(* The loop state is [has_key, cur_key, last_seq, out].                    *)
(***************************************************************************)
CompactLoopInit ==
    [has_key |-> FALSE, cur_key |-> 0, last_seq |-> kMaxSequenceNumber, out |-> <<>>]

\* lines 1549-1555: first occurrence of this user key resets last_sequence_for_key
LastSeqForKey(st, e) ==
    IF ~st.has_key \/ e.key # st.cur_key THEN kMaxSequenceNumber ELSE st.last_seq

\* a rule (A) that ignores the snapshots (mutation of CompactionDrop)
CompactionDrop_NoSnapshot(e, last_sequence_for_key, smallest, rb, o) ==
    IF RollbackDrop(e.seq, rb) THEN TRUE
    ELSE IF last_sequence_for_key # kMaxSequenceNumber
         THEN TRUE
    ELSE IF /\ e.type = kTypeDeletion
            /\ e.seq <= smallest
            /\ o.drop_base_level_del
            /\ e.key \in o.base_keys
         THEN TRUE
    ELSE IF e.seq <= smallest
         THEN e.seq \in o.strat_drop
    ELSE FALSE

\* lines 1557-1580: the drop decision for one entry
CompactionDrop(e, last_sequence_for_key, smallest, rb, o) ==
    IF RollbackDrop(e.seq, rb) THEN TRUE
    ELSE IF last_sequence_for_key <= smallest /\ last_sequence_for_key # kMaxSequenceNumber
         THEN TRUE     \* (A) hidden by a newer entry for the same user key
    ELSE IF /\ e.type = kTypeDeletion
            /\ e.seq <= smallest
            /\ o.drop_base_level_del
            /\ e.key \in o.base_keys
         THEN TRUE
    ELSE IF e.seq <= smallest
         THEN e.seq \in o.strat_drop
    ELSE FALSE

\* one iteration of the loop of lines 1512-1643
CompactLoopStep(st, e, smallest, rb, o) ==
    LET lsk == LastSeqForKey(st, e)
        drop == CompactionDrop(e, lsk, smallest, rb, o)
    IN  [has_key |-> TRUE, cur_key |-> e.key, last_seq |-> e.seq,
         out |-> IF drop THEN st.out ELSE Append(st.out, e)]

RECURSIVE CompactLoop(_, _, _, _, _)
CompactLoop(st, input, smallest, rb, o) ==
    IF input = <<>> THEN st
    ELSE CompactLoop(CompactLoopStep(st, Head(input), smallest, rb, o),
                     Tail(input), smallest, rb, o)

\* what the input iterator yields before it fails: the entries before the
\* entry with sequence bad (0: the iterator does not fail)
RECURSIVE ReadableInput(_, _)
ReadableInput(input, bad) ==
    IF input = <<>> \/ Head(input).seq = bad THEN <<>>
    ELSE <<Head(input)>> \o ReadableInput(Tail(input), bad)

\* the outputs of one (sub-)compaction over its range of the input
HandleCompactionWork(input, smallest, rb, o) ==
    CompactLoop(CompactLoopInit, ReadableInput(input, o.bad), smallest, rb, o).out

\* the part of the input a sub-compaction with range [start, end) of user
\* keys reads (sub_compact_start_, sub_compact_end_)
RECURSIVE SubCompactionInput(_, _, _)
SubCompactionInput(input, start, end) ==
    IF input = <<>> THEN <<>>
    ELSE IF Head(input).key >= start /\ Head(input).key < end
         THEN <<Head(input)>> \o SubCompactionInput(Tail(input), start, end)
         ELSE SubCompactionInput(Tail(input), start, end)

\* DBImpl::ParallelCompaction: the input is partitioned at the boundary user
\* key b into the ranges of two sub-compactions (a boundary below or above
\* every key: one of them is empty); the outputs of all sub-compactions are
\* collected in order
ParallelCompaction(input, b, smallest, rb, o) ==
    HandleCompactionWork(SubCompactionInput(input, 0, b), smallest, rb, o)
        \o HandleCompactionWork(SubCompactionInput(input, b, kMaxSequenceNumber),
                                smallest, rb, o)

(***************************************************************************)
(* State of the engine (leveldb::DBImpl and its callers' inputs).          *)
(***************************************************************************)
VARIABLES
    wpc,            \* position of each Write call: idle, wait, room, insert, commit, done
    wbatch,         \* its batch: [type, key, seq]; type "null" is the NULL batch
    wstatus,        \* the Status it returned
    wdelay,         \* MakeRoomForWrite's allow_delay
    wforce,         \* MakeRoomForWrite's force
    writers_,       \* the writer queue
    last_sequence,  \* the last sequence number stamped into a batch by the caller
    wal,            \* the write-ahead log: the writes appended, in order
    memOf,          \* the memtable object each write was inserted into (0: none)
    mem_,           \* the mutable memtable object
    imm_,           \* the immutable memtable object (0: NULL)
    being_flushed,  \* imm_->BeingFlushed()
    is_writting_mem_,
    sst,            \* the writes whose entries are in table files of the current version
    numL0,          \* versions_->NumLevelFiles(0)
    ver_last_sequence,  \* versions_->LastSequence()
    being_compacted,    \* the level-0 files are the input of a running compaction
    snapshots_,     \* the multiset snapshots_, as a sequence of sequence numbers
    rollbacks_,     \* the map rollbacks_, as a set of pairs
    bg_error_,
    consecutive_compaction_errors_,
    shutting_down_,
    paranoid_checks,    \* options_.paranoid_checks
    task,           \* bg_compaction_tasks_: free, queued, flush, compact, sleep
    tcomp,          \* what a running compaction has read: [smallest, input, n0]
    tsleep,         \* seconds_to_sleep of the task's last backoff
    tfail,          \* consecutive_compaction_errors_ as the task's failure left it (line 1127)
    rpc,            \* position of the Get call: idle, read, done
    rget,           \* what Get pinned: [snapshot, mem, imm, ver, rollbacks, key]
    rres,           \* the value Get returned (a sequence number stands for
                    \* the value written with it; 0: not found)
    \* history variables
    enqLog,         \* the Write calls in the order they entered the writer queue
    applied,        \* the Write calls in the order they were inserted into a memtable
    rexpect,        \* the value of the highest write with sequence <= snapshot
                    \* when Get pinned its view
    nGets, nSnaps, nRollbacks,
    failuresLeft,   \* failures the environment may still inject into background tasks
    permStored,     \* BackgroundCall has handled a permission-denied failure
    boundExceeded   \* BackgroundCall has seen more than the bound of failures

engineVars == <<wpc, wbatch, wstatus, wdelay, wforce, writers_, last_sequence, wal,
                memOf, mem_, imm_, being_flushed, is_writting_mem_, sst, numL0,
                ver_last_sequence, being_compacted, snapshots_, rollbacks_,
                bg_error_, consecutive_compaction_errors_, shutting_down_,
                paranoid_checks, task, tcomp, tsleep, tfail, rpc, rget, rres,
                enqLog, applied, rexpect, nGets, nSnaps, nRollbacks, failuresLeft,
                permStored, boundExceeded>>

Writes == 1..MaxWrites
Keys == 1..NumKeys
Tasks == 1..max_background_compactions
NullBatch == [type |-> "null", key |-> 0, seq |-> 0]

\* the entry a write adds to the memtable
EntryOf(w) == [key |-> wbatch[w].key, seq |-> wbatch[w].seq, type |-> wbatch[w].type]

\* MemTable::ApproximateMemoryUsage, in entries
ApproximateMemoryUsage(m) == Cardinality({w \in Writes : memOf[w] = m})

\* MemTable::GetLastSequence: 0 for an empty memtable
MemLastSequence(m) ==
    LET S == {wbatch[w].seq : w \in {x \in Writes : memOf[x] = m}}
    IN  IF S = {} THEN 0 ELSE CHOOSE x \in S : \A y \in S : y <= x

\* DBImpl::GetLastSequence
GetLastSequence ==
    IF MemLastSequence(mem_) > 0 THEN MemLastSequence(mem_)
    ELSE IF imm_ # 0 /\ MemLastSequence(imm_) > 0 THEN MemLastSequence(imm_)
    ELSE ver_last_sequence

\* the newest entry of a set of writes that a lookup of key at snapshot sees;
\* 0 when it sees none
NewestVisible(S, key, snapshot, rb) ==
    LET V == {w \in S : /\ wbatch[w].key = key
                        /\ wbatch[w].seq <= snapshot
                        /\ ~RollbackDrop(wbatch[w].seq, rb)}
    IN  IF V = {} THEN 0
        ELSE CHOOSE w \in V : \A x \in V : wbatch[x].seq <= wbatch[w].seq

\* MemTable::Get(lkey, value, rollbacks, &s): <<found, value>>
MemGet(m, key, snapshot, rb) ==
    LET w == NewestVisible({x \in Writes : memOf[x] = m}, key, snapshot, rb)
    IN  IF w = 0 THEN <<FALSE, 0>>
        ELSE IF wbatch[w].type = kTypeDeletion THEN <<TRUE, 0>>
        ELSE <<TRUE, wbatch[w].seq>>

\* Version::Get(options, lkey, value, &stats): the value, 0 for NotFound
VersionGet(ver, key, snapshot, rb) ==
    LET w == NewestVisible(ver, key, snapshot, rb)
    IN  IF w = 0 \/ wbatch[w].type = kTypeDeletion THEN 0 ELSE wbatch[w].seq

\* smallest_snapshot: the minimum of snapshots_, or kMaxSequenceNumber
SmallestSnapshot ==
    IF snapshots_ = <<>> THEN kMaxSequenceNumber
    ELSE CHOOSE x \in Range(snapshots_) : \A y \in Range(snapshots_) : x <= y

\* VersionSet::GetCompactionScores yields a score: level 0 has reached its
\* file-count trigger and is not being compacted
VersionNeedsCompaction(n0, bc) == n0 >= kL0_CompactionTrigger /\ ~bc

\* the parts of the state an engine action leaves alone
writerVars == <<wpc, wbatch, wstatus, wdelay, wforce, writers_, last_sequence, wal, enqLog>>
memVars == <<memOf, mem_, imm_, being_flushed, is_writting_mem_, applied>>
verVars == <<sst, numL0, ver_last_sequence, being_compacted>>
snapVars == <<snapshots_, rollbacks_, nSnaps, nRollbacks>>
errVars == <<bg_error_, consecutive_compaction_errors_, paranoid_checks, failuresLeft,
             permStored, boundExceeded>>
taskVars == <<task, tcomp, tsleep, tfail>>
readVars == <<rpc, rget, rres, rexpect, nGets>>
EngineOnly == UNCHANGED <<compactVars, recoverVars, nodeVars, moreVars>>

(***************************************************************************)
(* DBImpl::MaybeScheduleCompaction: the tasks after the call, given the    *)
(* state the caller has produced.  A score exists for an immutable         *)
(* memtable that is not being flushed and for a version that needs         *)
(* compaction; tasks are added until there is one per score or             *)
(* max_background_compactions is reached.                                  *)
(***************************************************************************)
ScoreCount(immv, bfv, n0, bc) ==
    (IF immv # 0 /\ ~bfv THEN 1 ELSE 0) + (IF VersionNeedsCompaction(n0, bc) THEN 1 ELSE 0)

\* a scheduler without the test of shutting_down_ (mutation of
\* MaybeScheduleCompaction)
MaybeScheduleCompaction_NoShutdownTest(tk, sd, bge, immv, bfv, n0, bc) ==
    IF IsIOPermissionDenied(bge) THEN tk
    ELSE LET free == {t \in Tasks : tk[t] = "free"}
             active == Cardinality(Tasks) - Cardinality(free)
             target == Max(active, Min(ScoreCount(immv, bfv, n0, bc),
                                       max_background_compactions))
             new == {t \in free : Cardinality({u \in free : u < t}) < target - active}
         IN  [t \in Tasks |-> IF t \in new THEN "queued" ELSE tk[t]]

\* a scheduler without the test of bg_error_ (mutation of MaybeScheduleCompaction)
MaybeScheduleCompaction_NoErrorTest(tk, sd, bge, immv, bfv, n0, bc) ==
    IF sd THEN tk
    ELSE LET free == {t \in Tasks : tk[t] = "free"}
             active == Cardinality(Tasks) - Cardinality(free)
             target == Max(active, Min(ScoreCount(immv, bfv, n0, bc),
                                       max_background_compactions))
             new == {t \in free : Cardinality({u \in free : u < t}) < target - active}
         IN  [t \in Tasks |-> IF t \in new THEN "queued" ELSE tk[t]]

MaybeScheduleCompaction(tk, sd, bge, immv, bfv, n0, bc) ==
    IF sd THEN tk
    ELSE IF IsIOPermissionDenied(bge) THEN tk
    ELSE LET free == {t \in Tasks : tk[t] = "free"}
             active == Cardinality(Tasks) - Cardinality(free)
             target == Max(active, Min(ScoreCount(immv, bfv, n0, bc),
                                       max_background_compactions))
             new == {t \in free : Cardinality({u \in free : u < t}) < target - active}
         IN  [t \in Tasks |-> IF t \in new THEN "queued" ELSE tk[t]]

(***************************************************************************)
(* DBImpl::Write.                                                          *)
(***************************************************************************)
\* a writer that ignores the queue (mutation of IsHead)
IsHead_Any(w) == w \in Range(writers_)
\* lines 1846-1848: the writer waits until it is the front of writers_
IsHead(w) == writers_ # <<>> /\ Head(writers_) = w

\* a head that leaves without a signal (mutation of SignalTarget)
SignalTarget_None(q) == {}
\* lines 1878-1881: the writer whose cv is signalled when the head has left
\* the queue q
SignalTarget(q) == IF q = <<>> THEN {} ELSE {Head(q)}

\* lines 1841-1848: the writer enters the queue; if it is not the front it
\* blocks in w.cv.Wait() ("wait"), else it goes on to MakeRoomForWrite
Enqueue(w, b) ==
    /\ wbatch' = [wbatch EXCEPT ![w] = b]
    /\ writers_' = Append(writers_, w)
    /\ enqLog' = Append(enqLog, w)
    /\ wpc' = [wpc EXCEPT ![w] = IF IsHead(w)' THEN "room" ELSE "wait"]
    /\ wdelay' = [wdelay EXCEPT ![w] = b.type # "null"]
    /\ wforce' = [wforce EXCEPT ![w] = b.type = "null"]

\* the w-th Write call is made once the calls before it have been made
NextCall(w) == wpc[w] = "idle" /\ \A x \in Writes : x < w => wpc[x] # "idle"

\* a table layer that skips the log (mutation of LogAppend)
LogAppend_Skip(w) == wal
\* the table layer appends the batch to its write-ahead log
LogAppend(w) == Append(wal, w)

\* the caller of Write for user data (the table layer above the engine):
\* it stamps the next sequence number into the batch, appends the batch to
\* the WAL and then hands it to the engine
TableWrite(w) ==
    /\ NextCall(w)
    /\ \E type \in {kTypeValue, kTypeDeletion}, key \in Keys :
          Enqueue(w, [type |-> type, key |-> key, seq |-> last_sequence + 1])
    /\ last_sequence' = last_sequence + 1
    /\ wal' = LogAppend(w)
    /\ UNCHANGED <<wstatus, memVars, verVars, snapVars, errVars, shutting_down_,
                   taskVars, readVars>>
    /\ EngineOnly

\* the WAL append fails: the error goes back to the writer and the engine
\* is not called
TableWriteLogFail(w) ==
    /\ NextCall(w)
    /\ \E type \in {kTypeValue, kTypeDeletion}, key \in Keys :
          wbatch' = [wbatch EXCEPT ![w] = [type |-> type, key |-> key,
                                           seq |-> last_sequence + 1]]
    /\ wpc' = [wpc EXCEPT ![w] = "done"]
    /\ wstatus' = [wstatus EXCEPT ![w] = IOError]
    /\ UNCHANGED <<wdelay, wforce, writers_, last_sequence, wal, enqLog, memVars,
                   verVars, snapVars, errVars, shutting_down_, taskVars, readVars>>
    /\ EngineOnly

\* Write(WriteOptions(), NULL) of AddBoundLogSize and TEST_CompactMemTable
WriteNull(w) ==
    /\ NextCall(w)
    /\ Enqueue(w, NullBatch)
    /\ UNCHANGED <<wstatus, last_sequence, wal, memVars, verVars, snapVars, errVars,
                   shutting_down_, taskVars, readVars>>
    /\ EngineOnly

\* lines 1875-1885: the head leaves the queue, signals the cv of the new front
\* and returns; a signalled writer that waits wakes up and tests the front
\* of the queue again (line 1846)
WriteReturn(w, s) ==
    /\ writers_' = Tail(writers_)
    /\ is_writting_mem_' = FALSE
    /\ wpc' = [x \in Writes |->
                 IF x = w THEN "done"
                 ELSE IF x \in SignalTarget(Tail(writers_)) /\ wpc[x] = "wait"
                         /\ IsHead(x)'
                 THEN "room"
                 ELSE wpc[x]]
    /\ wstatus' = [wstatus EXCEPT ![w] = s]

\* lines 1853-1863: MakeRoomForWrite returned OK
WriteProceed(w) ==
    IF wbatch[w].type # "null"
    THEN /\ is_writting_mem_' = TRUE
         /\ wpc' = [wpc EXCEPT ![w] = "insert"]
         /\ UNCHANGED <<writers_, wstatus>>
    ELSE WriteReturn(w, OK)

\* only a permission error stops writes (mutation of HasBgError)
HasBgError_PermissionOnly == IsIOPermissionDenied(bg_error_)
\* line 1896: !bg_error_.ok()
HasBgError == bg_error_ # OK

\* a stop trigger that never stops (mutation of Level0Full)
Level0Full_Never == FALSE
\* line 1921: versions_->NumLevelFiles(0) >= config::kL0_StopWritesTrigger
Level0Full == numL0 >= kL0_StopWritesTrigger

\* MakeRoomForWrite's tests, in the order of the loop
MustDelay(w) == wdelay[w] /\ numL0 >= kL0_SlowdownWritesTrigger
HasRoom(w) == ~wforce[w] /\ ApproximateMemoryUsage(mem_) <= write_buffer_size

\* DBImpl::MakeRoomForWrite, run by the head of the queue: one pass from
\* taking the mutex to the next point where it is released
MakeRoomForWrite(w) ==
    /\ wpc[w] = "room"
    /\ IsHead(w)
    /\ \/ /\ HasBgError                           \* yield previous error
          /\ WriteReturn(w, bg_error_)
          /\ UNCHANGED <<wdelay, wforce, memOf, mem_, imm_, being_flushed, taskVars>>
       \/ /\ ~HasBgError /\ MustDelay(w)        \* sleep 1 ms, once
          /\ wdelay' = [wdelay EXCEPT ![w] = FALSE]
          /\ UNCHANGED <<wpc, wstatus, wforce, writers_, memOf, mem_, imm_,
                         being_flushed, is_writting_mem_, taskVars>>
       \/ /\ ~HasBgError /\ ~MustDelay(w)
          /\ shutting_down_ \/ HasRoom(w)         \* break
          /\ WriteProceed(w)
          /\ UNCHANGED <<wdelay, wforce, memOf, mem_, imm_, being_flushed, taskVars>>
       \/ /\ ~HasBgError /\ ~MustDelay(w) /\ ~shutting_down_ /\ ~HasRoom(w)
          /\ imm_ = 0                             \* else wait on bg_cv_
          /\ ~Level0Full                          \* else wait on bg_cv_
          /\ imm_' = mem_                         \* switch to a new memtable
          /\ mem_' = mem_ + 1
          /\ being_flushed' = FALSE
          /\ wforce' = [wforce EXCEPT ![w] = FALSE]
          /\ task' = MaybeScheduleCompaction(task, shutting_down_, bg_error_, mem_,
                                             FALSE, numL0, being_compacted)
          /\ WriteProceed(w)                      \* the new memtable has room
          /\ UNCHANGED <<wdelay, memOf, tcomp, tsleep, tfail>>
    /\ UNCHANGED <<wbatch, last_sequence, wal, enqLog, applied, verVars, snapVars,
                   errVars, shutting_down_, readVars>>
    /\ EngineOnly

\* line 1864: WriteBatchInternal::InsertInto(updates, mem_), outside the mutex
InsertInto(w) ==
    /\ wpc[w] = "insert"
    /\ memOf' = [memOf EXCEPT ![w] = mem_]
    /\ applied' = Append(applied, w)
    /\ wpc' = [wpc EXCEPT ![w] = "commit"]
    /\ UNCHANGED <<wbatch, wstatus, wdelay, wforce, writers_, last_sequence, wal,
                   enqLog, mem_, imm_, being_flushed, is_writting_mem_, verVars,
                   snapVars, errVars, shutting_down_, taskVars, readVars>>
    /\ EngineOnly

\* lines 1865-1885: the writer takes the mutex again, leaves the queue, returns
WriteCommit(w) ==
    /\ wpc[w] = "commit"
    /\ WriteReturn(w, OK)
    /\ UNCHANGED <<wbatch, wdelay, wforce, last_sequence, wal, enqLog, memOf, mem_,
                   imm_, being_flushed, applied, verVars, snapVars, errVars,
                   shutting_down_, taskVars, readVars>>
    /\ EngineOnly

(***************************************************************************)
(* Background work: DBImpl::BackgroundCall, BackgroundCompaction,          *)
(* CompactMemTable, ParallelCompaction.                                    *)
(***************************************************************************)
NoCompaction == [smallest |-> 0, input |-> {}, n0 |-> 0]

\* lines 1133-1136: seconds_to_sleep for the given consecutive_compaction_errors_
RECURSIVE Pow2(_)
Pow2(n) == IF n <= 0 THEN 1 ELSE 2 * Pow2(n - 1)
\* seconds_to_sleep without the cap of three doublings (mutation of
\* SecondsToSleep)
SecondsToSleep_NoCap(errors) == Pow2(Max(0, errors - 1))

SecondsToSleep(errors) == Pow2(Min(3, Max(0, errors - 1)))

\* lines 1144-1155: the task is erased and, unless the call was idle, the
\* next compaction is scheduled
EraseTask(t, idle, bge, immv, bfv, n0, bc) ==
    LET erased == [task EXCEPT ![t] = "free"]
    IN  IF idle THEN erased
        ELSE MaybeScheduleCompaction(erased, shutting_down_, bge, immv, bfv, n0, bc)

\* lines 1113-1139: BackgroundCall after BackgroundCompaction has returned s;
\* bge is bg_error_ as BackgroundCompaction left it, the other arguments the
\* state the scheduler will see
BackgroundCallTail(t, s, idle, bge, immv, bfv, n0, bc) ==
    IF s = OK
       THEN /\ consecutive_compaction_errors_' = 0
            /\ bg_error_' = bge
            /\ task' = EraseTask(t, idle, bge, immv, bfv, n0, bc)
            /\ UNCHANGED <<tsleep, tfail, permStored, boundExceeded, failuresLeft>>
    ELSE IF shutting_down_
       THEN /\ bg_error_' = bge
            /\ task' = EraseTask(t, idle, bge, immv, bfv, n0, bc)
            /\ UNCHANGED <<consecutive_compaction_errors_, tsleep, tfail, permStored,
                           boundExceeded, failuresLeft>>
    ELSE LET n == consecutive_compaction_errors_ + 1
                store == IsIOPermissionDenied(s) \/ n > kMaxConsecutiveErrors
                left == IF store THEN 0 ELSE n
            IN  /\ bg_error_' = IF store THEN s ELSE bge
                /\ consecutive_compaction_errors_' = left
                /\ task' = [task EXCEPT ![t] = "failed"]
                /\ tfail' = [tfail EXCEPT ![t] = n]
                /\ UNCHANGED tsleep
                /\ permStored' = (permStored \/ IsIOPermissionDenied(s))
                /\ boundExceeded' = (boundExceeded \/ n > kMaxConsecutiveErrors)
                /\ failuresLeft' = Max(0, failuresLeft - 1)

\* the outcomes of a step that writes files
Outcomes == IF failuresLeft > 0 THEN {OK, IOError, IOPermissionDenied} ELSE {OK}

\* BackgroundCall up to the first point where the mutex is released
BackgroundCall(t) ==
    /\ task[t] = "queued"
    /\ IF shutting_down_
       THEN \* line 1141: sched_idle = true
            /\ task' = [task EXCEPT ![t] = "free"]
            /\ UNCHANGED <<imm_, being_flushed, being_compacted, tcomp, tsleep, tfail,
                           errVars>>
       ELSE IF imm_ # 0 /\ ~being_flushed
       THEN \* BackgroundCompaction -> CompactMemTable
            IF ApproximateMemoryUsage(imm_) <= 0
            THEN \* the immutable memtable is empty: it is released, sched_idle
                 /\ imm_' = 0
                 /\ being_flushed' = FALSE
                 /\ BackgroundCallTail(t, OK, TRUE, bg_error_, 0, FALSE, numL0,
                                       being_compacted)
                 /\ UNCHANGED <<being_compacted, tcomp, paranoid_checks>>
            ELSE \* WriteLevel0Table builds the table outside the mutex
                 /\ being_flushed' = TRUE
                 /\ task' = [task EXCEPT ![t] = "flush"]
                 /\ UNCHANGED <<imm_, being_compacted, tcomp, tsleep, tfail, errVars>>
       ELSE IF VersionNeedsCompaction(numL0, being_compacted)
       THEN \* PickCompaction found work: ParallelCompaction reads
            \* smallest_snapshot and releases the mutex
            /\ being_compacted' = TRUE
            /\ tcomp' = [tcomp EXCEPT ![t] = [smallest |-> SmallestSnapshot,
                                              input |-> sst, n0 |-> numL0]]
            /\ task' = [task EXCEPT ![t] = "compact"]
            /\ UNCHANGED <<imm_, being_flushed, tsleep, tfail, errVars>>
       ELSE \* nothing to do: sched_idle
            /\ BackgroundCallTail(t, OK, TRUE, bg_error_, imm_, being_flushed, numL0,
                                  being_compacted)
            /\ UNCHANGED <<imm_, being_flushed, being_compacted, tcomp, paranoid_checks>>
    /\ UNCHANGED <<writerVars, memOf, mem_, is_writting_mem_, applied, sst, numL0,
                   ver_last_sequence, snapVars, shutting_down_, readVars>>
    /\ EngineOnly

\* a flush that releases the immutable memtable whatever its Status
\* (mutation of ImmAfterFlush)
ImmAfterFlush_Released(s) == 0
\* CompactMemTable lines 835-843: imm_ is released if the edit was applied
\* and kept otherwise
ImmAfterFlush(s) == IF s = OK THEN 0 ELSE imm_

\* CompactMemTable lines 812-845 and the rest of BackgroundCall: the table
\* has been built (or not) and the edit is applied
FlushDone(t) ==
    /\ task[t] = "flush"
    /\ \E s \in Outcomes, level0 \in BOOLEAN :
          IF s = OK
          THEN LET n0 == IF level0 THEN numL0 + 1 ELSE numL0
               IN  /\ sst' = sst \cup {w \in Writes : memOf[w] = imm_}
                   /\ numL0' = n0
                   /\ ver_last_sequence' = IF MemLastSequence(imm_) # 0
                                           THEN MemLastSequence(imm_)
                                           ELSE ver_last_sequence
                   /\ imm_' = ImmAfterFlush(OK)
                   /\ being_flushed' = FALSE
                   /\ BackgroundCallTail(t, OK, FALSE, bg_error_, 0, FALSE, n0,
                                         being_compacted)
          ELSE /\ being_flushed' = FALSE    \* imm dump fail, reset the flag
               /\ imm_' = ImmAfterFlush(s)
               /\ BackgroundCallTail(t, s, FALSE, bg_error_, imm_, FALSE, numL0,
                                     being_compacted)
               /\ UNCHANGED <<sst, numL0, ver_last_sequence>>
    /\ UNCHANGED <<writerVars, memOf, mem_, is_writting_mem_, applied, being_compacted,
                   snapVars, shutting_down_, paranoid_checks, tcomp, readVars>>
    /\ EngineOnly

\* the entries of a set of writes as the compaction's input iterator yields them
InputOf(S) == SortedEntries({EntryOf(w) : w \in S})
\* the writes whose entries a sequence of entries holds
WritesOf(out) == {w \in Writes : \E i \in 1..Len(out) : out[i] = EntryOf(w)}

\* ParallelCompaction lines 1291-1344 and the rest of BackgroundCompaction and
\* BackgroundCall: the sub-compactions have finished
CompactionDone(t) ==
    /\ task[t] = "compact"
    /\ \E s \in (IF shutting_down_ THEN {IOError} \cup (Outcomes \ {OK}) ELSE Outcomes),
          dd \in BOOLEAN, b \in 1..(NumKeys + 1) :
          /\ shutting_down_ => s # OK      \* "Deleting DB during compaction"
          /\ LET input == InputOf(tcomp[t].input)
                 o == [drop_base_level_del |-> dd, base_keys |-> Keys, strat_drop |-> {},
                       bad |-> 0]
                 out == ParallelCompaction(input, b, tcomp[t].smallest, rollbacks_, o)
                 bge == IF s # OK /\ ~shutting_down_ /\ paranoid_checks /\ bg_error_ = OK
                        THEN s ELSE bg_error_
                 n0 == IF s = OK THEN numL0 - tcomp[t].n0 ELSE numL0
             IN  /\ sst' = IF s = OK THEN (sst \ tcomp[t].input) \cup WritesOf(out)
                                     ELSE sst
                 /\ numL0' = n0
                 /\ BackgroundCallTail(t, s, FALSE, bge, imm_, being_flushed, n0, FALSE)
    /\ being_compacted' = FALSE
    /\ tcomp' = [tcomp EXCEPT ![t] = NoCompaction]
    /\ UNCHANGED <<writerVars, memVars, ver_last_sequence, snapVars, shutting_down_,
                   paranoid_checks, readVars>>
    /\ EngineOnly

\* BackgroundCall lines 1132-1137: the mutex has been released; the task reads
\* consecutive_compaction_errors_ without the mutex, as the other background
\* tasks have left it by now, and goes to sleep for seconds_to_sleep
BackgroundBackoff(t) ==
    /\ task[t] = "failed"
    /\ task' = [task EXCEPT ![t] = "sleep"]
    /\ tsleep' = [tsleep EXCEPT ![t] = SecondsToSleep(consecutive_compaction_errors_)]
    /\ UNCHANGED <<writerVars, memVars, verVars, snapVars, errVars, shutting_down_,
                   tcomp, tfail, readVars>>
    /\ EngineOnly

\* BackgroundCall lines 1138-1155: the backoff sleep is over
BackgroundWake(t) ==
    /\ task[t] = "sleep"
    /\ task' = EraseTask(t, FALSE, bg_error_, imm_, being_flushed, numL0, being_compacted)
    /\ tsleep' = [tsleep EXCEPT ![t] = 0]
    /\ tfail' = [tfail EXCEPT ![t] = 0]
    /\ UNCHANGED <<writerVars, memVars, verVars, snapVars, errVars, shutting_down_,
                   tcomp, readVars>>
    /\ EngineOnly

\* DBImpl::ShouldForceUnloadOnError
ShouldForceUnloadOnError == IsIOPermissionDenied(bg_error_)

\* Shutdown1 line 206: the engine is being shut down
ShutdownBegin ==
    /\ ~shutting_down_
    /\ shutting_down_' = TRUE
    /\ UNCHANGED <<writerVars, memVars, verVars, snapVars, errVars, taskVars, readVars>>
    /\ EngineOnly

(***************************************************************************)
(* Snapshots and rollbacks.                                                *)
(***************************************************************************)
RECURSIVE RemoveOne(_, _)
RemoveOne(q, x) ==
    IF q = <<>> THEN <<>>
    ELSE IF Head(q) = x THEN Tail(q) ELSE <<Head(q)>> \o RemoveOne(Tail(q), x)

\* DBImpl::GetSnapshot(last_sequence): the caller passes the sequence of the
\* last write it has completed
GetSnapshot ==
    /\ nSnaps < MaxSnapshots
    /\ nSnaps' = nSnaps + 1
    /\ snapshots_' = Append(snapshots_, GetLastSequence)
    /\ UNCHANGED <<rollbacks_, nRollbacks>>
    /\ UNCHANGED <<writerVars, memVars, verVars, errVars, shutting_down_, taskVars,
                   readVars>>
    /\ EngineOnly

\* DBImpl::ReleaseSnapshot(sequence_number)
ReleaseSnapshot(x) ==
    /\ x \in Range(snapshots_)
    /\ rpc # "read" \/ rget.snapshot # x    \* a reader holds its snapshot
    /\ snapshots_' = RemoveOne(snapshots_, x)
    /\ UNCHANGED <<rollbacks_, nSnaps, nRollbacks>>
    /\ UNCHANGED <<writerVars, memVars, verVars, errVars, shutting_down_, taskVars,
                   readVars>>
    /\ EngineOnly

\* DBImpl::Rollback(snapshot_seq, rollback_point)
Rollback(snapshot_seq, rollback_point) ==
    /\ nRollbacks < MaxRollbacks
    /\ rollback_point >= snapshot_seq
    /\ nRollbacks' = nRollbacks + 1
    /\ rollbacks_' = {r \in rollbacks_ : r[1] # snapshot_seq}
                        \cup {<<snapshot_seq, rollback_point>>}
    /\ UNCHANGED <<snapshots_, nSnaps>>
    /\ UNCHANGED <<writerVars, memVars, verVars, errVars, shutting_down_, taskVars,
                   readVars>>
    /\ EngineOnly

(***************************************************************************)
(* DBImpl::Get.                                                            *)
(***************************************************************************)
\* the value of the highest-sequence write of key with sequence <= snapshot
\* among the writes inserted so far; 0 when there is none or it is a deletion
HighestWrite(key, snapshot) ==
    LET V == {w \in Writes : /\ memOf[w] # 0
                             /\ wbatch[w].key = key
                             /\ wbatch[w].seq <= snapshot}
    IN  IF V = {} THEN 0
        ELSE LET w == CHOOSE x \in V : \A y \in V : wbatch[y].seq <= wbatch[x].seq
             IN  IF wbatch[w].type = kTypeDeletion THEN 0 ELSE wbatch[w].seq

\* lines 1726-1744: under the mutex Get fixes its snapshot and pins mem_,
\* imm_ and the current version.  snap is options.snapshot
\* (kMaxSequenceNumber: none), rb is options.rollbacks
GetPin(key, snap, rb) ==
    /\ rpc \in {"idle", "done"}
    /\ nGets < MaxGets
    /\ nGets' = nGets + 1
    /\ LET snapshot == IF snap # kMaxSequenceNumber THEN snap ELSE GetLastSequence
       IN  /\ rget' = [snapshot |-> snapshot, mem |-> mem_, imm |-> imm_, ver |-> sst,
                       rollbacks |-> rb, key |-> key]
           /\ rexpect' = HighestWrite(key, snapshot)
    /\ rpc' = "read"
    /\ rres' = 0
    /\ UNCHANGED <<writerVars, memVars, verVars, snapVars, errVars, shutting_down_,
                   taskVars>>
    /\ EngineOnly

\* a lookup that skips the immutable memtable (mutation of GetLookup)
GetLookup_NoImm(g) ==
    LET m == MemGet(g.mem, g.key, g.snapshot, g.rollbacks)
    IN  IF m[1] THEN m[2]
        ELSE VersionGet(g.ver, g.key, g.snapshot, g.rollbacks)

\* the lookup of lines 1750-1758 over a pinned view
GetLookup(g) ==
    LET m == MemGet(g.mem, g.key, g.snapshot, g.rollbacks)
        i == MemGet(g.imm, g.key, g.snapshot, g.rollbacks)
    IN  IF m[1] THEN m[2]
        ELSE IF g.imm # 0 /\ i[1] THEN i[2]
        ELSE VersionGet(g.ver, g.key, g.snapshot, g.rollbacks)

\* lines 1746-1765: outside the mutex the memtables, then the version, are read
GetRead ==
    /\ rpc = "read"
    /\ rres' = GetLookup(rget)
    /\ rpc' = "done"
    \* lines 1761-1764: the memtables and the version are released
    /\ rget' = [rget EXCEPT !.mem = 0, !.imm = 0, !.ver = {}]
    /\ UNCHANGED <<rexpect, nGets>>
    /\ UNCHANGED <<writerVars, memVars, verVars, snapVars, errVars, shutting_down_,
                   taskVars>>
    /\ EngineOnly

(***************************************************************************)
(* The engine's specification.                                             *)
(***************************************************************************)
\* the other parts at rest
CompactIdle ==
    /\ cpc = "idle" /\ cinput = <<>> /\ csmallest = 0 /\ crollbacks = {}
    /\ copts = 0 /\ cbound = 0 /\ cfail = 0 /\ coutputs = <<>> /\ cstatus = OK
    /\ cversion = <<>>
RecoverIdle ==
    /\ vpc = "idle" /\ vopt = FALSE /\ vpre = OK /\ vlive = {} /\ vdfs = {}
    /\ vlist = 0 /\ vedit = {} /\ vstate = "kNotInit" /\ vstatus = OK
NodeIdle ==
    /\ session_id_ = <<>> /\ tablet_list_ = {} /\ hpc = 0 /\ hreq = 0 /\ reply = 0
CacheIdle ==
    /\ fphase = "idle" /\ bflags = {} /\ bs = OK /\ bbuf = 0 /\ brefs = 0 /\ ssd = 0
    /\ metaValid = FALSE /\ rdpc = 0 /\ rdkind = 0 /\ rds = 0 /\ rdres = 0
    /\ rdsaw = 0 /\ nReads = 0 /\ cacheFailuresLeft = 0
MetaIdle ==
    /\ fname_fid = 0 /\ new_fid_ = 0 /\ lock_key_ = 0 /\ opc = 0 /\ ofid = 0
    /\ blockKeys = {} /\ dsRecords = {} /\ dpc = 0 /\ dfid = 0 /\ dlocked = FALSE
    /\ nOpens = 0
GcIdle ==
    /\ gtablets = 0 /\ ginherits = 0 /\ pcache = {} /\ flash = {}
    /\ delayed_gc_files_ = {} /\ gcEvictedLive = {} /\ gcDeletedLive = {}
    /\ nCycles = 0
ShardIdle ==
    /\ deadline_passed = FALSE /\ row_has_tablet = 0 /\ shpc = 0 /\ shindex = 0
    /\ row_status = 0 /\ has_timeout_ = FALSE /\ finished_ = 0
    /\ resp_status = "none" /\ rowsAfterTimeout = 0 /\ passedAtWork = FALSE
LimiterIdle ==
    /\ read_thread_num = 0 /\ ratio4 = 0 /\ limit_ = 0 /\ tpc = 0 /\ tlast = 0
    /\ dfsRunning = 0
ShutIdle == sdpc = "kOpened" /\ sdump = FALSE
ParIdle ==
    /\ pmain = "idle" /\ pinput = <<>> /\ pbound = 0 /\ psmallest = 0 /\ wk = 0
    /\ pstatus = OK /\ pending_outputs_ = {} /\ next_file_number_ = 0
    /\ dfiles = {} /\ vfiles = {} /\ fl = 0 /\ dof = 0 /\ pedits = 0
    /\ shardsAtInstall = {} /\ deletedLive = {} /\ keptRolledBack = {}
    /\ pw = "idle" /\ addedToImm = FALSE
FidIdle ==
    /\ prev_fid_ = 0 /\ fid_record = 0 /\ lock_fid = 0 /\ amu = 0 /\ apc = 0
    /\ afid = 0 /\ alockval = 0 /\ aval = 0 /\ granted = {} /\ grantedBefore = {}
    /\ reusedFid = FALSE /\ nAllocs = 0 /\ nRestarts = 0 /\ putFailuresLeft = 0
SplitIdle ==
    /\ roffset = 0 /\ rn = 0 /\ spc = 0 /\ block_idx = 0 /\ block_queue = <<>>
    /\ msize = 0
WbIdle ==
    /\ row_tablet = 0 /\ wtask = 0 /\ wsync = 0 /\ wrow_status = 0
    /\ row_done_counter = 0 /\ wdone_runs = 0
FlashIdle ==
    /\ update_flash_waiting = FALSE /\ task_priority = 0 /\ uftask = 0
    /\ demandPriority = 0 /\ failedCopies = 0 /\ demandsLeft = 0
LastIdle == FidIdle /\ SplitIdle /\ WbIdle /\ FlashIdle
LaterIdle == GcIdle /\ ShardIdle /\ LimiterIdle /\ ShutIdle /\ ParIdle /\ LastIdle
MoreIdle == CacheIdle /\ MetaIdle /\ LaterIdle

\* the engine after DBImpl::DBImpl and a Recover of a database with n0
\* level-0 files (line 1020: RecoverLastDumpToLevel0 ends with
\* MaybeScheduleCompaction)
EngineOpened(n0) ==
    /\ wpc = [w \in Writes |-> "idle"]
    /\ wbatch = [w \in Writes |-> NullBatch]
    /\ wstatus = [w \in Writes |-> OK]
    /\ wdelay = [w \in Writes |-> FALSE]
    /\ wforce = [w \in Writes |-> FALSE]
    /\ writers_ = <<>>
    /\ last_sequence = 0
    /\ wal = <<>>
    /\ memOf = [w \in Writes |-> 0]
    /\ mem_ = 1
    /\ imm_ = 0
    /\ being_flushed = FALSE
    /\ is_writting_mem_ = FALSE
    /\ sst = {}
    /\ numL0 = n0
    /\ ver_last_sequence = 0
    /\ being_compacted = FALSE
    /\ snapshots_ = <<>>
    /\ rollbacks_ = {}
    /\ bg_error_ = OK
    /\ consecutive_compaction_errors_ = 0
    /\ shutting_down_ = FALSE
    /\ paranoid_checks \in BOOLEAN
    /\ task = MaybeScheduleCompaction([t \in Tasks |-> "free"], FALSE, OK, 0, FALSE,
                                      n0, FALSE)
    /\ tcomp = [t \in Tasks |-> NoCompaction]
    /\ tsleep = [t \in Tasks |-> 0]
    /\ tfail = [t \in Tasks |-> 0]
    /\ rpc = "idle"
    /\ rget = [snapshot |-> 0, mem |-> 0, imm |-> 0, ver |-> {}, rollbacks |-> {},
               key |-> 0]
    /\ rres = 0
    /\ enqLog = <<>>
    /\ applied = <<>>
    /\ rexpect = 0
    /\ nGets = 0 /\ nSnaps = 0 /\ nRollbacks = 0
    /\ failuresLeft \in {0, MaxFailures}
    /\ permStored = FALSE
    /\ boundExceeded = FALSE

\* the engine after DBImpl::DBImpl and a Recover of an empty database
EngineStart == EngineOpened(0)

\* the engine at rest, for the specifications of the other parts
EngineIdle ==
    /\ wpc = 0 /\ wbatch = 0 /\ wstatus = 0 /\ wdelay = 0 /\ wforce = 0
    /\ writers_ = <<>> /\ last_sequence = 0 /\ wal = <<>> /\ memOf = 0
    /\ mem_ = 0 /\ imm_ = 0 /\ being_flushed = FALSE /\ is_writting_mem_ = FALSE
    /\ sst = {} /\ numL0 = 0 /\ ver_last_sequence = 0 /\ being_compacted = FALSE
    /\ snapshots_ = <<>> /\ rollbacks_ = {} /\ bg_error_ = OK
    /\ consecutive_compaction_errors_ = 0 /\ shutting_down_ = FALSE
    /\ paranoid_checks = FALSE /\ task = 0 /\ tcomp = 0 /\ tsleep = 0 /\ tfail = 0
    /\ rpc = "idle" /\ rget = 0 /\ rres = 0 /\ enqLog = <<>> /\ applied = <<>>
    /\ rexpect = 0 /\ nGets = 0 /\ nSnaps = 0 /\ nRollbacks = 0 /\ failuresLeft = 0
    /\ permStored = FALSE /\ boundExceeded = FALSE

InitEngine == EngineStart /\ CompactIdle /\ RecoverIdle /\ NodeIdle /\ MoreIdle

\* the write path with background work, failures and shutdown
NextWrite ==
    \/ \E w \in Writes : TableWrite(w)
    \/ \E w \in Writes : TableWriteLogFail(w)
    \/ \E w \in Writes : WriteNull(w)
    \/ \E w \in Writes : MakeRoomForWrite(w)
    \/ \E w \in Writes : InsertInto(w)
    \/ \E w \in Writes : WriteCommit(w)
    \/ \E t \in Tasks : BackgroundCall(t)
    \/ \E t \in Tasks : FlushDone(t)
    \/ \E t \in Tasks : CompactionDone(t)
    \/ \E t \in Tasks : BackgroundBackoff(t)
    \/ \E t \in Tasks : BackgroundWake(t)
    \/ ShutdownBegin

\* the read path: writes, background work, snapshots, rollbacks and Get; no
\* background step fails here, so no task ever sleeps before a retry
NextRead ==
    \/ \E w \in Writes : TableWrite(w)
    \/ \E w \in Writes : MakeRoomForWrite(w)
    \/ \E w \in Writes : InsertInto(w)
    \/ \E w \in Writes : WriteCommit(w)
    \/ \E t \in Tasks : BackgroundCall(t)
    \/ \E t \in Tasks : FlushDone(t)
    \/ \E t \in Tasks : CompactionDone(t)
    \/ GetSnapshot
    \/ \E x \in 0..MaxWrites : ReleaseSnapshot(x)
    \/ \E a \in Range(snapshots_) : Rollback(a, GetLastSequence)
    \/ \E key \in Keys, snap \in Range(snapshots_) \cup {kMaxSequenceNumber},
          rb \in {{}, rollbacks_} : GetPin(key, snap, rb)
    \/ GetRead

vars == <<engineVars, compactVars, recoverVars, nodeVars, moreVars>>

\* runs in which background tasks may fail
InitWrite == InitEngine /\ failuresLeft = MaxFailures
\* runs without injected failures
InitRead == InitEngine /\ failuresLeft = 0 /\ ~paranoid_checks

SpecWrite == InitWrite /\ [][NextWrite]_vars
SpecRead == InitRead /\ [][NextRead]_vars

(***************************************************************************)
(* Properties of the write path (SpecWrite).                               *)
(***************************************************************************)
\* position of x in a sequence without repetitions
Pos(q, x) == CHOOSE i \in 1..Len(q) : q[i] = x

\* C1: writes take effect in the memtable in exactly the order in which
\* they entered the writer queue: the writes inserted so far appear in
\* queue order and with increasing sequence numbers, a write is inserted
\* only by the head of the queue, and every write that entered the queue
\* before an inserted one has been inserted or has returned.
C1_WritesApplyInQueueOrder ==
    /\ \A i, j \in 1..Len(applied) :
          i < j => /\ Pos(enqLog, applied[i]) < Pos(enqLog, applied[j])
                   /\ wbatch[applied[i]].seq < wbatch[applied[j]].seq
    /\ \A w \in Writes : wpc[w] \in {"insert", "commit"} => Head(writers_) = w
    /\ \A i \in 1..Len(applied) : \A k \in 1..Len(enqLog) :
          k < Pos(enqLog, applied[i]) =>
              \/ wpc[enqLog[k]] = "done"
              \/ \E h \in 1..Len(applied) : h < i /\ applied[h] = enqLog[k]

\* C1 happens: a write is being inserted while another waits in the queue
\* behind it, and an earlier write has been inserted already
C1_Witness ==
    /\ Len(applied) >= 1
    /\ Len(writers_) >= 2
    /\ wpc[Head(writers_)] = "insert"

C9_BgErrorFailsWrites ==
    [][ /\ bg_error_ # OK => bg_error_' # OK
        /\ \A w \in Writes :
              (bg_error_ # OK /\ wpc[w] = "room" /\ wpc'[w] # "room")
                 => /\ wpc'[w] = "done"
                    /\ wstatus'[w] = bg_error_
                    /\ memOf' = memOf
                    /\ applied' = applied ]_vars

\* C9 happens: a write has returned the stored error without being inserted
C9_Witness ==
    /\ bg_error_ # OK
    /\ \E w \in Writes : /\ wpc[w] = "done" /\ wbatch[w].type # "null"
                         /\ w \in Range(enqLog)
                         /\ wstatus[w] = bg_error_ /\ memOf[w] = 0

\* C10 as stated: after a permission-denied failure, or after the number
\* of consecutive failures has exceeded the bound, the engine reports
\* force-unload.
C10_AsStated ==
    (permStored \/ boundExceeded) => ShouldForceUnloadOnError

\* C10, amended: after a background task has failed with permission denied
\* while the engine was not shutting down, ShouldForceUnloadOnError holds;
\* and while it holds no new background task is scheduled.
C10_PermissionDeniedForcesUnload ==
    /\ [](permStored => ShouldForceUnloadOnError)
    /\ [][ShouldForceUnloadOnError =>
             \A t \in Tasks : task'[t] = "queued" => task[t] = "queued"]_vars

\* C10 happens: the permission error is stored, an immutable memtable waits
\* to be flushed and no task is scheduled for it
C10_Witness ==
    /\ permStored
    /\ imm_ # 0 /\ ~being_flushed
    /\ \A t \in Tasks : task[t] = "free"

\* C11 as stated: as long as no background failure was permission-denied or
\* exceeded the failure bound, writes are still accepted (no background
\* error is stored).
C11_AsStated ==
    (~permStored /\ ~boundExceeded) => bg_error_ = OK

\* C11, amended: a background failure that is not permission-denied and is
\* within the failure bound leaves shutting_down_ alone and, unless
\* paranoid_checks is set, leaves bg_error_ alone (writes are accepted as
\* before); the task then sleeps 1, 2, 4 or 8 seconds, 2^min(3, n-1) for the
\* n-th consecutive failure when no other background task has changed the
\* counter before the task reads it; and when it wakes with work left, the
\* engine not shutting down and no permission error stored, a compaction is
\* scheduled unless another background task is still active (the scheduler
\* adds a task only for work in excess of the active tasks; the active task
\* schedules the work when it ends).
C11_TransientFailureBacksOff ==
    [][\A t \in Tasks :
         /\ (task[t] # "failed" /\ task'[t] = "failed")
               => /\ shutting_down_' = shutting_down_
                  /\ (tfail'[t] <= kMaxConsecutiveErrors /\ ~paranoid_checks)
                        => (bg_error_' = bg_error_ \/ IsIOPermissionDenied(bg_error_'))
         /\ (task[t] = "failed" /\ task'[t] = "sleep")
               => /\ tsleep'[t] \in {1, 2, 4, 8}
                  /\ consecutive_compaction_errors_ = tfail[t]
                        => tsleep'[t] = Pow2(Min(3, tfail[t] - 1))
         /\ (task[t] = "sleep" /\ task'[t] # "sleep"
             /\ ~shutting_down_ /\ ~IsIOPermissionDenied(bg_error_)
             /\ ScoreCount(imm_, being_flushed, numL0, being_compacted) > 0)
               => \E u \in Tasks : task'[u] # "free"]_vars

\* C11 happens: after five consecutive transient failures a task sleeps the
\* capped 8 seconds, no error is stored and the engine is not shutting down
C11_Witness ==
    /\ \E t \in Tasks : task[t] = "sleep" /\ tfail[t] = 5 /\ tsleep[t] = 8
    /\ bg_error_ = OK
    /\ ~shutting_down_

(***************************************************************************)
(* Properties of the read path (SpecRead).                                 *)
(***************************************************************************)
\* C2 as stated: Get at snapshot s returns the value of the
\* highest-sequence write of the key with sequence <= s, not-found if that
\* write is a deletion or there is none.
C2_AsStated ==
    rpc = "done" => rres = rexpect

\* C2, amended: as long as no Rollback has been recorded in the engine, Get
\* at snapshot s (a held snapshot, or the last sequence) returns the value
\* of the highest-sequence write of the key with sequence <= s, not-found
\* if that write is a deletion or there is none.
C2_GetReadsSnapshot ==
    (rpc = "done" /\ nRollbacks = 0) => rres = rexpect

\* C2 happens: Get has returned a value that is not the newest one, found
\* while a newer write of the key exists and files are being compacted
C2_Witness ==
    /\ rpc = "done" /\ nRollbacks = 0
    /\ rres # 0
    /\ rres < GetLastSequence
    /\ sst # {}

(***************************************************************************)
(* One compaction run (SpecCompact): DBImpl::ParallelCompaction over an    *)
(* input drawn from all inputs within the bounds.                          *)
(***************************************************************************)
EntrySeqs == 1..MaxEntries
\* the inputs: one entry per sequence number, each of some key and type
CompactionInputs ==
    {SortedEntries({[key |-> k[n], seq |-> n, type |-> ty[n]] : n \in EntrySeqs}) :
        k \in [EntrySeqs -> 1..CompactKeys],
        ty \in [EntrySeqs -> {kTypeValue, kTypeDeletion}]}
\* rollbacks_ holds no rollback or one
RollbackMaps ==
    {{}} \cup {{<<a, b>>} : a \in 0..MaxEntries, b \in 1..MaxEntries}
\* what goes wrong in the run
CompactionFaults ==
    {[kind |-> k, bad |-> 0] : k \in {"none", "write", "shutdown"}}
        \cup {[kind |-> "input", bad |-> n] : n \in EntrySeqs}

InitCompact ==
    /\ cpc = "ready"
    /\ cinput \in CompactionInputs
    /\ csmallest \in (0..MaxEntries) \cup {kMaxSequenceNumber}
    /\ crollbacks \in {r \in RollbackMaps : \A p \in r : p[1] < p[2]}
    /\ copts \in [drop_base_level_del : BOOLEAN, base_keys : {{}, 1..CompactKeys},
                  strat_drop : {{}, EntrySeqs},
                  ignore_corruption_in_compaction : BOOLEAN]
    /\ cbound \in 1..CompactKeys
    /\ cfail \in CompactionFaults
    /\ coutputs = <<>>
    /\ cstatus = OK
    /\ cversion = cinput
    /\ EngineIdle /\ RecoverIdle /\ NodeIdle /\ MoreIdle

\* HandleCompactionWork lines 1645-1658 over all sub-compactions: the Status
\* of the compaction
CompactionStatus(fault, ignore) ==
    IF fault.kind = "write" THEN IOError
    ELSE IF fault.kind = "shutdown" THEN IOError   \* "Deleting DB during compaction"
    ELSE IF fault.kind = "input" /\ ~ignore THEN Corruption
    ELSE OK

CompactOnly == UNCHANGED <<engineVars, recoverVars, nodeVars, moreVars>>

\* ParallelCompaction lines 1259-1313: the sub-compactions run and their
\* outputs and statuses are collected
DoCompactionWork ==
    /\ cpc = "ready"
    /\ LET o == [drop_base_level_del |-> copts.drop_base_level_del,
                 base_keys |-> copts.base_keys,
                 strat_drop |-> copts.strat_drop,
                 bad |-> cfail.bad]
       IN  coutputs' = ParallelCompaction(cinput, cbound, csmallest, crollbacks, o)
    /\ cstatus' = CompactionStatus(cfail, copts.ignore_corruption_in_compaction)
    /\ cpc' = "done"
    /\ UNCHANGED <<cinput, csmallest, crollbacks, copts, cbound, cfail, cversion>>
    /\ CompactOnly

\* ParallelCompaction lines 1315-1319, InstallCompactionResults: the edit
\* replaces the input files by the output files
InstallCompactionResults ==
    /\ cpc = "done"
    /\ cstatus = OK
    /\ cversion' = coutputs
    /\ cpc' = "installed"
    /\ UNCHANGED <<cinput, csmallest, crollbacks, copts, cbound, cfail, coutputs, cstatus>>
    /\ CompactOnly

\* ParallelCompaction lines 1326-1343 after a failure: the outputs are
\* dropped, the version keeps the input files
CleanupCompaction ==
    /\ cpc = "done"
    /\ cstatus # OK
    /\ coutputs' = <<>>
    /\ cpc' = "aborted"
    /\ UNCHANGED <<cinput, csmallest, crollbacks, copts, cbound, cfail, cstatus, cversion>>
    /\ CompactOnly

NextCompact ==
    \/ DoCompactionWork
    \/ InstallCompactionResults
    \/ CleanupCompaction

SpecCompact == InitCompact /\ [][NextCompact]_vars

\* number of times e occurs in a sequence
Count(q, e) == Cardinality({i \in 1..Len(q) : q[i] = e})

\* C3 as stated: a compaction that is installed preserves every entry whose
\* sequence is greater than smallest_snapshot, with its multiplicity.
C3_AsStated ==
    cpc = "installed" =>
        \A i \in 1..Len(cinput) :
            cinput[i].seq > csmallest => Count(cversion, cinput[i]) = 1

\* C3, amended: a compaction that is installed and whose input iterators
\* reported no error preserves, exactly once, every entry whose sequence is
\* greater than smallest_snapshot and lies in no rollback window
\* (snapshot, rollback_point]; a compaction that fails leaves the version
\* as it was.
C3_CompactionKeepsLiveEntries ==
    /\ (cpc = "installed" /\ cfail.kind # "input") =>
          \A i \in 1..Len(cinput) :
              (cinput[i].seq > csmallest /\ ~RollbackDrop(cinput[i].seq, crollbacks))
                  => Count(cversion, cinput[i]) = 1
    /\ cpc = "aborted" => cversion = cinput

\* C3 happens: an installed compaction has dropped an entry and has kept an
\* entry above smallest_snapshot that a newer entry of its key hides
C3_Witness ==
    /\ cpc = "installed" /\ cfail.kind # "input"
    /\ Len(cversion) < Len(cinput)
    /\ \E i, j \in 1..Len(cversion) :
          /\ i < j /\ cversion[i].key = cversion[j].key
          /\ cversion[j].seq > csmallest

(***************************************************************************)
(* One run of DBImpl::Recover (SpecRecover).  A table file is a pair       *)
(* <<tablet, number>> (its full file number).                              *)
(***************************************************************************)
TabletDirs == 1..RecoverTablets
TableFiles == TabletDirs \X (1..RecoverFiles)

InitRecover ==
    /\ vpc = "ready"
    /\ vopt \in BOOLEAN
    /\ vpre \in {OK, IOError, Corruption}
    /\ vlive \in SUBSET TableFiles
    /\ vdfs \in SUBSET TableFiles
    /\ vlist \in [TabletDirs -> {OK, TimeOut, IOError}]
    /\ vedit = {}
    /\ vstate = "kNotInit"
    /\ vstatus = OK
    /\ EngineIdle /\ CompactIdle /\ NodeIdle /\ MoreIdle

\* lines 663-670: the tablets of the live files
LiveTablets(live) == {f[1] : f \in live}

\* lines 672-706: the directories are listed in ascending order of tablet;
\* the Status with which the loop returns, OK when it runs to its end
ListStatus(live, list, ignore) ==
    LET failing == {t \in LiveTablets(live) :
                       list[t] = TimeOut \/ (list[t] # OK /\ ~ignore)}
    IN  IF failing = {} THEN OK
        ELSE LET first == CHOOSE t \in failing : \A u \in failing : t <= u
             IN  IF list[first] = TimeOut THEN TimeOut ELSE IOError

\* lines 660-706: the live files that no directory listing has shown
LostFiles(live, dfs, list) ==
    {f \in live : ~(list[f[1]] = OK /\ f \in dfs)}

\* a check that lets lost files pass (mutation of LostFileStatus)
LostFileStatus_Pass(lost, ignore) == OK
\* lines 707-722: lost files are fatal unless ignore_corruption_in_open
LostFileStatus(lost, ignore) ==
    IF lost # {} /\ ~ignore THEN Corruption ELSE OK

\* DBImpl::Recover: [status, edit, opened]
RecoverResult(pre, live, dfs, list, ignore) ==
    IF pre # OK THEN [status |-> pre, edit |-> {}, opened |-> FALSE]
    ELSE IF ListStatus(live, list, ignore) # OK
    THEN [status |-> ListStatus(live, list, ignore), edit |-> {}, opened |-> FALSE]
    ELSE LET lost == LostFiles(live, dfs, list)
             st == LostFileStatus(lost, ignore)
         IN  [status |-> st,
              edit |-> IF ignore THEN lost ELSE {},
              opened |-> st = OK]

RecoverOnly == UNCHANGED <<engineVars, compactVars, nodeVars, moreVars>>

Recover ==
    /\ vpc = "ready"
    /\ LET r == RecoverResult(vpre, vlive, vdfs, vlist, vopt)
       IN  /\ vstatus' = r.status
           /\ vedit' = r.edit
           /\ vstate' = IF r.opened THEN "kOpened" ELSE vstate
    /\ vpc' = "done"
    /\ UNCHANGED <<vopt, vpre, vlive, vdfs, vlist>>
    /\ RecoverOnly

NextRecover == Recover

SpecRecover == InitRecover /\ [][NextRecover]_vars

\* C7: after Recover has returned OK, every table file of the recovered
\* version (the live files without those the edit deletes) exists on the
\* DFS, files are deleted by the edit only under ignore_corruption_in_open,
\* and the engine is Opened; without that option, a live file that is
\* missing on the DFS makes Recover fail and the engine does not become
\* Opened, and the failure is the corruption error whenever the steps
\* before the comparison (opening the database, listing the directories)
\* succeeded.
C7_RecoverChecksLostFiles ==
    vpc = "done" =>
        /\ vstatus = OK => /\ (vlive \ vedit) \subseteq vdfs
                           /\ vedit # {} => vopt
                           /\ vstate = "kOpened"
        /\ (~vopt /\ ~(vlive \subseteq vdfs)) =>
               /\ vstatus # OK
               /\ vstate # "kOpened"
               /\ (vpre = OK /\ \A t \in LiveTablets(vlive) : vlist[t] = OK)
                     => vstatus = Corruption
        /\ vstatus # OK => vstate # "kOpened"

\* C7 happens: Recover has found a lost file and failed with the corruption
\* error
C7_Witness ==
    /\ vpc = "done" /\ ~vopt
    /\ ~(vlive \subseteq vdfs)
    /\ vstatus = Corruption
    /\ vstate = "kNotInit"

(***************************************************************************)
(* The tablet server (SpecNode): TabletNodeImpl's handlers of LoadTablet,  *)
(* UnloadTablet, WriteTablet and CompactTablet over one table, running on  *)
(* concurrent handler threads.                                             *)
(***************************************************************************)
Handlers == 1..NumHandlers
\* key ranges [start, end) of the table
Ranges == {r \in (0..MaxKey) \X (0..MaxKey) : r[1] < r[2]}
\* session ids: strings over a small alphabet
SessionIds == UNION {[1..n -> 1..SessionChars] : n \in 0..MaxSessionLen}

\* TabletRange: two ranges that overlap are the same key of tablet_list_
RangeOverlap(a, b) == a[1] < b[2] /\ b[1] < a[2]

\* std::string::compare(0, sid.size(), sid) == 0: the string begins with sid
BeginsWith(str, sid) ==
    Len(str) >= Len(sid) /\ SubSeq(str, 1, Len(sid)) = sid

\* a check that only wants a session id to be present (mutation of
\* LoadSessionRejected)
LoadSessionRejected_PresentOnly(req, sid) == ~req.has_session_id
\* LoadTablet lines 399-400
LoadSessionRejected(req, sid) ==
    \/ ~req.has_session_id
    \/ Len(sid) = 0
    \/ ~BeginsWith(req.session_id, sid)

\* no check at all (mutation of UnloadSessionRejected)
UnloadSessionRejected_Never(req, sid) == FALSE
\* UnloadTablet lines 525-526
UnloadSessionRejected(req, sid) ==
    /\ req.has_session_id
    /\ (Len(sid) = 0 \/ ~BeginsWith(req.session_id, sid))

\* the requests: the fields the handlers read.  session_id is an optional
\* field of the message: when has_session_id is false it reads as the empty
\* string
LoadRequests ==
    {req \in [range : Ranges, has_session_id : BOOLEAN, session_id : SessionIds,
              has_locality_groups : BOOLEAN] :
        ~req.has_session_id => req.session_id = <<>>}
UnloadRequests ==
    {req \in [range : Ranges, has_session_id : BOOLEAN, session_id : SessionIds] :
        ~req.has_session_id => req.session_id = <<>>}
\* a write request: the row keys of row_list, at most MaxRows of them
WriteRequests ==
    [row_list : UNION {[1..n -> 0..(MaxKey - 1)] : n \in 0..MaxRows}]
CompactRequests == UnloadRequests

\* a tablet: its range, its TabletStatus and whether a write or a compaction
\* has changed its data since it was loaded
NewTablet(r) == [range |-> r, status |-> "kOnLoad", dirty |-> FALSE]
\* TabletManager::GetTablet(table, start, end) and GetTablet(table, key)
TabletsOfRange(r) == {t \in tablet_list_ : t.range = r}
TabletsOfKey(k) == {t \in tablet_list_ : t.range[1] <= k /\ k < t.range[2]}
\* the tablets that make TabletManager::AddTablet fail
TabletsInTheWay(r) == {t \in tablet_list_ : RangeOverlap(t.range, r)}
\* tablet_list_ with the status of the tablet of range r set
WithStatus(r, st) ==
    {IF t.range = r THEN [t EXCEPT !.status = st] ELSE t : t \in tablet_list_}

\* how the request's session id relates to the server's when it is handled
SessionOf(req) ==
    [has_session_id |-> req.has_session_id,
     same_id |-> req.has_session_id /\ req.session_id = session_id_,
     begins_with_id |-> /\ req.has_session_id /\ Len(session_id_) > 0
                        /\ BeginsWith(req.session_id, session_id_)]
\* StatTable::SerializeCorrupt(phase, local_addr_, path, load_context, err_msg):
\* the structured message, of which the model keeps the phase and the tablet
SerializeCorrupt(phase, range) == [phase |-> phase, range |-> range]
\* a response without detail_fail_msg
NoDetail == [phase |-> "none", range |-> <<0, 1>>]
NoSession == [has_session_id |-> FALSE, same_id |-> FALSE, begins_with_id |-> FALSE]
NoRequest == [op |-> "none", range |-> <<0, 1>>, session |-> NoSession]
\* the last response: the operation, the status, the session relation of
\* its request, whether the handler changed a tablet, detail_fail_msg and,
\* of a write, the request's row keys and row_status_list
NoReply == [op |-> "none", status |-> "kTabletNodeOk", session |-> NoSession,
            changed |-> FALSE, detail |-> NoDetail, row_list |-> <<>>,
            row_status_list |-> <<>>]

InitNode ==
    /\ session_id_ \in SessionIds \ {<<>>}
    /\ tablet_list_ = {}
    /\ hpc = [h \in Handlers |-> "idle"]
    /\ hreq = [h \in Handlers |-> NoRequest]
    /\ reply = NoReply
    /\ EngineIdle /\ CompactIdle /\ RecoverIdle /\ MoreIdle

NodeOnly == UNCHANGED <<engineVars, compactVars, recoverVars, moreVars>>

\* the handler answers at once and is idle again
Answer(h, op, req, status, changed) ==
    /\ reply' = [op |-> op, status |-> status, session |-> SessionOf(req),
                 changed |-> changed, detail |-> NoDetail, row_list |-> <<>>,
                 row_status_list |-> <<>>]
    /\ UNCHANGED <<hpc, hreq>>

\* the handler goes on outside the manager's lock
Proceed(h, pc, op, req) ==
    /\ hpc' = [hpc EXCEPT ![h] = pc]
    /\ hreq' = [hreq EXCEPT ![h] = [op |-> op, range |-> req.range,
                                    session |-> SessionOf(req)]]
    /\ UNCHANGED reply

\* the handler answers after its work, with a detail_fail_msg or none, and is
\* idle again
FinishWith(h, status, detail) ==
    /\ reply' = [op |-> hreq[h].op, status |-> status, session |-> hreq[h].session,
                 changed |-> TRUE, detail |-> detail, row_list |-> <<>>,
                 row_status_list |-> <<>>]
    /\ hpc' = [hpc EXCEPT ![h] = "idle"]
    /\ hreq' = [hreq EXCEPT ![h] = NoRequest]
Finish(h, status) == FinishWith(h, status, NoDetail)

\* a handler that loads whatever AddTablet answered (mutation of LoadTablet)
LoadTablet_LoadsAnyway(h, req) ==
    /\ hpc[h] = "idle"
    /\ IF LoadSessionRejected(req, session_id_) \/ ~req.has_locality_groups
       THEN /\ Answer(h, "LoadTablet", req, "kIllegalAccess", FALSE)
            /\ UNCHANGED tablet_list_
       ELSE /\ tablet_list_' = tablet_list_ \cup {NewTablet(req.range)}
            /\ Proceed(h, "load", "LoadTablet", req)
    /\ UNCHANGED session_id_
    /\ NodeOnly

\* TabletNodeImpl::LoadTablet up to the call of TabletIO::Load
LoadTablet(h, req) ==
    /\ hpc[h] = "idle"
    /\ IF LoadSessionRejected(req, session_id_) \/ ~req.has_locality_groups
       THEN /\ Answer(h, "LoadTablet", req, "kIllegalAccess", FALSE)
            /\ UNCHANGED tablet_list_
       ELSE IF TabletsInTheWay(req.range) # {}
       THEN \* AddTablet failed: the status of the tablet found is the answer
            /\ \E t \in TabletsInTheWay(req.range) :
                  Answer(h, "LoadTablet", req, t.status, FALSE)
            /\ UNCHANGED tablet_list_
       ELSE /\ tablet_list_' = tablet_list_ \cup {NewTablet(req.range)}
            /\ Proceed(h, "load", "LoadTablet", req)
    /\ UNCHANGED session_id_
    /\ NodeOnly

\* LoadTablet lines 454-471: TabletIO::Load has returned
LoadFinish(h, ok) ==
    /\ hpc[h] = "load"
    /\ IF ok
       THEN /\ tablet_list_' = WithStatus(hreq[h].range, "kReady")
            /\ Finish(h, "kTabletNodeOk")
       ELSE /\ tablet_list_' = WithStatus(hreq[h].range, "kNotInit")
            /\ hpc' = [hpc EXCEPT ![h] = "remove"]
            /\ UNCHANGED <<hreq, reply>>
    /\ UNCHANGED session_id_
    /\ NodeOnly

\* a handler that leaves the tablet in the manager (mutation of RemoveTablet)
RemoveTablet_Keeps(h) ==
    /\ hpc[h] = "remove"
    /\ IF hreq[h].op = "LoadTablet"
       THEN FinishWith(h, "kIOError", SerializeCorrupt("kLoading", hreq[h].range))
       ELSE Finish(h, "kTabletNodeOk")
    /\ UNCHANGED <<session_id_, tablet_list_>>
    /\ NodeOnly

\* LoadTablet lines 460-469 and UnloadTablet line 512: TabletManager::RemoveTablet,
\* then the answer, which after a load that failed is kIOError with the
\* corruption message of phase kLoading
RemoveTablet(h) ==
    /\ hpc[h] = "remove"
    /\ tablet_list_' = tablet_list_ \ TabletsOfRange(hreq[h].range)
    /\ IF hreq[h].op = "LoadTablet"
       THEN FinishWith(h, "kIOError", SerializeCorrupt("kLoading", hreq[h].range))
       ELSE Finish(h, "kTabletNodeOk")
    /\ UNCHANGED session_id_
    /\ NodeOnly

\* TabletNodeImpl::UnloadTablet (both overloads) up to TabletIO::Unload
UnloadTablet(h, req) ==
    /\ hpc[h] = "idle"
    /\ IF UnloadSessionRejected(req, session_id_)
       THEN /\ Answer(h, "UnloadTablet", req, "kIllegalAccess", FALSE)
            /\ UNCHANGED tablet_list_
       ELSE IF TabletsOfRange(req.range) = {}
       THEN /\ Answer(h, "UnloadTablet", req, "kKeyNotInRange", FALSE)
            /\ UNCHANGED tablet_list_
       ELSE \E t \in TabletsOfRange(req.range) :
               IF t.status # "kReady"
               THEN \* Unload failed: the tablet's status is the answer
                    /\ Answer(h, "UnloadTablet", req, t.status, FALSE)
                    /\ UNCHANGED tablet_list_
               ELSE /\ tablet_list_' = WithStatus(req.range, "kUnLoading")
                    /\ Proceed(h, "unload", "UnloadTablet", req)
    /\ UNCHANGED session_id_
    /\ NodeOnly

\* UnloadTablet lines 508-510: TabletIO::Unload has returned true
UnloadFinish(h) ==
    /\ hpc[h] = "unload"
    /\ tablet_list_' = WithStatus(hreq[h].range, "kNotInit")
    /\ hpc' = [hpc EXCEPT ![h] = "remove"]
    /\ UNCHANGED <<session_id_, hreq, reply>>
    /\ NodeOnly

\* WriteTablet lines 660-668 and WriteTabletFail: the status of the rows of
\* one WriteTabletTask, whose tablet_io is the tablet GetTablet found (T is
\* empty when it found none)
TaskStatus(T) ==
    IF T = {} THEN "kKeyNotInRange"
    ELSE LET t == CHOOSE u \in T : TRUE
         IN  IF t.status # "kReady" THEN t.status  \* TabletIO::Write refuses
             ELSE "kTabletNodeOk"

\* a response whose statuses are in the reverse order of the rows (mutation
\* of RowStatusList)
RowStatusList_Reversed(row_list) ==
    [index \in DOMAIN row_list |->
        TaskStatus(TabletsOfKey(row_list[Len(row_list) + 1 - index]))]
\* WriteTabletCallback: every task sets the status of each of its rows at the
\* row's index of the request (row_index_vec)
RowStatusList(row_list) ==
    [index \in DOMAIN row_list |-> TaskStatus(TabletsOfKey(row_list[index]))]

\* the tablets whose TabletIO::Write takes rows of the request
TabletsWritten(row_list) ==
    {t \in tablet_list_ : /\ t.status = "kReady"
                          /\ \E i \in DOMAIN row_list : t \in TabletsOfKey(row_list[i])}

\* TabletNodeImpl::WriteTablet with WriteTabletFail and WriteTabletCallback
WriteTablet(h, req) ==
    /\ hpc[h] = "idle"
    /\ tablet_list_' =
          {IF t \in TabletsWritten(req.row_list) THEN [t EXCEPT !.dirty = TRUE] ELSE t :
              t \in tablet_list_}
    /\ reply' = [op |-> "WriteTablet", status |-> "kTabletNodeOk",
                 session |-> NoSession,
                 changed |-> \E t \in TabletsWritten(req.row_list) : ~t.dirty,
                 detail |-> NoDetail, row_list |-> req.row_list,
                 row_status_list |-> RowStatusList(req.row_list)]
    /\ UNCHANGED <<session_id_, hpc, hreq>>
    /\ NodeOnly

\* TabletNodeImpl::CompactTablet
CompactTablet(h, req) ==
    /\ hpc[h] = "idle"
    /\ IF TabletsOfRange(req.range) = {}
       THEN /\ Answer(h, "CompactTablet", req, "kKeyNotInRange", FALSE)
            /\ UNCHANGED tablet_list_
       ELSE \E t \in TabletsOfRange(req.range) :
               IF t.status # "kReady"
               THEN \* TabletIO::Compact refuses
                    /\ Answer(h, "CompactTablet", req, t.status, FALSE)
                    /\ UNCHANGED tablet_list_
               ELSE /\ tablet_list_' =
                          (tablet_list_ \ {t}) \cup {[t EXCEPT !.dirty = TRUE]}
                    /\ Answer(h, "CompactTablet", req, "kTabletNodeOk", ~t.dirty)
    /\ UNCHANGED session_id_
    /\ NodeOnly

\* TabletNodeImpl::SetSessionId
SetSessionId(sid) ==
    /\ session_id_' = sid
    /\ UNCHANGED <<tablet_list_, hpc, hreq, reply>>
    /\ NodeOnly

NextNode ==
    \/ \E h \in Handlers, req \in LoadRequests : LoadTablet(h, req)
    \/ \E h \in Handlers, ok \in BOOLEAN : LoadFinish(h, ok)
    \/ \E h \in Handlers : RemoveTablet(h)
    \/ \E h \in Handlers, req \in UnloadRequests : UnloadTablet(h, req)
    \/ \E h \in Handlers : UnloadFinish(h)
    \/ \E h \in Handlers, req \in WriteRequests : WriteTablet(h, req)
    \/ \E h \in Handlers, req \in CompactRequests : CompactTablet(h, req)
    \/ \E sid \in SessionIds : SetSessionId(sid)

SpecNode == InitNode /\ [][NextNode]_vars

\* C4: under every interleaving of LoadTablet and UnloadTablet, no two
\* tablets of the table whose ranges are the same or overlap are Ready at
\* the same time.
C4_NoOverlappingReadyTablets ==
    \A t, u \in tablet_list_ :
        (t # u /\ t.status = "kReady" /\ u.status = "kReady")
            => ~(t.range[1] < u.range[2] /\ u.range[1] < t.range[2])

\* C4 happens: a tablet is Ready, a load of an overlapping range has been
\* answered with the status of that tablet, and another load is running
C4_Witness ==
    /\ \E t \in tablet_list_ : t.status = "kReady"
    /\ reply.op = "LoadTablet" /\ reply.status = "kReady"
    /\ \E g \in Handlers : hpc[g] = "load"

\* C5 as stated: a LoadTablet whose session id is not equal to the
\* server's is answered kIllegalAccess and changes nothing.
C5_AsStated ==
    (reply.op = "LoadTablet" /\ ~reply.session.same_id)
        => (reply.status = "kIllegalAccess" /\ ~reply.changed)

\* C5, amended: a LoadTablet that carries no session id, or arrives while
\* the server's session id is empty, or carries a session id that does not
\* begin with the server's session id, is answered kIllegalAccess and
\* adds or loads no tablet.
C5_LoadRejectsForeignSession ==
    (reply.op = "LoadTablet" /\ ~reply.session.begins_with_id)
        => (reply.status = "kIllegalAccess" /\ ~reply.changed)

\* C5 happens: a load with a foreign session id has been rejected while a
\* tablet is loaded
C5_Witness ==
    /\ reply.op = "LoadTablet"
    /\ reply.session.has_session_id /\ ~reply.session.begins_with_id
    /\ reply.status = "kIllegalAccess"
    /\ \E t \in tablet_list_ : t.status = "kReady"

\* C6 as stated: a request that carries no session id, or one that differs
\* from the server's, changes no tablet.
C6_AsStated ==
    (reply.op # "none" /\ ~reply.session.same_id) => ~reply.changed

\* C6, amended: only LoadTablet and UnloadTablet test the session id; an
\* UnloadTablet that carries a session id that does not begin with the
\* server's (or arrives while the server's is empty) is answered
\* kIllegalAccess and changes no tablet.
C6_UnloadRejectsForeignSession ==
    (/\ reply.op = "UnloadTablet"
     /\ reply.session.has_session_id /\ ~reply.session.begins_with_id)
        => (reply.status = "kIllegalAccess" /\ ~reply.changed)

\* C6 happens: an unload with a foreign session id has been rejected while
\* a tablet is Ready
C6_Witness ==
    /\ reply.op = "UnloadTablet"
    /\ reply.session.has_session_id /\ ~reply.session.begins_with_id
    /\ reply.status = "kIllegalAccess"
    /\ \E t \in tablet_list_ : t.status = "kReady"

(***************************************************************************)
(* The block cache (block_cache.cc): one block of one table file.  The     *)
(* file is written through BlockCacheWritableFile and then read through    *)
(* BlockCacheRandomAccessFile::Read by concurrent callers.  Bytes are      *)
(* abstract: DfsBytes is what the DFS holds for the block, Garbage any     *)
(* other content (a fresh buffer, a slot never written, a transfer that    *)
(* failed midway).                                                         *)
(***************************************************************************)
Readers == 1..NumReaders
DfsBytes == "dfs"
Garbage == "garbage"
NoBytes == "none"
kCacheBlockValid == "Valid"
kCacheBlockLocked == "Locked"
kCacheBlockDfsRead == "DfsRead"
kCacheBlockCacheRead == "CacheRead"
kCacheBlockCacheFill == "CacheFill"

\* the outcomes of one I/O call
IoOutcomes == IF cacheFailuresLeft > 0 THEN {TRUE, FALSE} ELSE {TRUE}
\* the failures left after a call that ended ok or not
Spend(ok) == IF ok THEN cacheFailuresLeft ELSE cacheFailuresLeft - 1
\* what a buffer or a slot holds after a transfer that failed
AfterFailedTransfer(before) == {before, Garbage}

InitCache ==
    /\ fphase = "writing"
    /\ bflags = {} /\ bs = OK /\ bbuf = NoBytes /\ brefs = 0
    /\ ssd = Garbage /\ metaValid = FALSE
    /\ rdpc = [r \in Readers |-> "idle"]
    /\ rdkind = [r \in Readers |-> "none"]
    /\ rds = [r \in Readers |-> OK]
    /\ rdres = [r \in Readers |-> NoBytes]
    /\ rdsaw = [r \in Readers |-> FALSE]
    /\ nReads = 0
    /\ cacheFailuresLeft \in 0..MaxCacheFailures
    /\ EngineIdle /\ CompactIdle /\ RecoverIdle /\ NodeIdle /\ MetaIdle /\ LaterIdle

CacheOnly ==
    UNCHANGED <<engineVars, compactVars, recoverVars, nodeVars, metaVars, laterVars>>
readerVars == <<rdpc, rdkind, rds, rdres, rdsaw, nReads>>

\* BlockCacheWritableFile::FillCache and Close: the writer puts the block it
\* has appended to the DFS into the cache; f names the call that fails
FillCache ==
    /\ fphase = "writing"
    /\ \E f \in {"none", "LogRecord", "pwrite", "ReleaseBlock"} :
          /\ f # "none" => cacheFailuresLeft > 0
          /\ LET filled == f \notin {"LogRecord", "pwrite"}
             IN  /\ bflags' = IF filled THEN {kCacheBlockValid} ELSE {}
                 /\ ssd' = IF filled THEN DfsBytes ELSE ssd
                 /\ metaValid' = (filled /\ f # "ReleaseBlock")
          /\ cacheFailuresLeft' = Spend(f = "none")
    /\ fphase' = "closed"
    /\ UNCHANGED <<bs, bbuf, brefs, readerVars>>
    /\ CacheOnly

\* a Read that does not test the Locked bit (mutation of BlockList)
BlockList_NoLockTest(flags) ==
    IF kCacheBlockValid \in flags THEN "valid" ELSE "miss"
\* Read lines 777-786: the list the block goes to, by its state
BlockList(flags) ==
    IF kCacheBlockLocked \notin flags /\ kCacheBlockValid \in flags THEN "valid"
    ELSE IF kCacheBlockLocked \notin flags THEN "miss"
    ELSE "locked"

\* Read lines 764-828: GetAndAllocBlock, GetDataBlock, the block goes to
\* c_valid, c_miss or c_locked, and the asynchronous reads are scheduled
ReadBegin(r) ==
    /\ fphase = "closed"
    /\ rdpc[r] \in {"idle", "done"}
    /\ nReads < MaxReads
    /\ nReads' = nReads + 1
    /\ bbuf' = IF brefs = 0 THEN Garbage ELSE bbuf
    /\ brefs' = brefs + 1
    /\ rdkind' = [rdkind EXCEPT ![r] = BlockList(bflags)]
    /\ IF BlockList(bflags) = "valid"
       THEN /\ bflags' = bflags \cup {kCacheBlockLocked, kCacheBlockCacheRead}
            /\ rdpc' = [rdpc EXCEPT ![r] = "cache_read"]
       ELSE IF BlockList(bflags) = "miss"
       THEN /\ bflags' = bflags \cup {kCacheBlockLocked, kCacheBlockDfsRead}
            /\ rdpc' = [rdpc EXCEPT ![r] = "dfs_read"]
       ELSE /\ bflags' = bflags
            /\ rdpc' = [rdpc EXCEPT ![r] = "wait_locked"]
    /\ rds' = [rds EXCEPT ![r] = OK]
    /\ rdres' = [rdres EXCEPT ![r] = NoBytes]
    /\ rdsaw' = [rdsaw EXCEPT ![r] = kCacheBlockValid \in bflags]
    /\ UNCHANGED <<fphase, bs, ssd, metaValid, cacheFailuresLeft>>
    /\ CacheOnly

\* HandleDfsRead (lines 982-1003), on the bg_dfs_read_ pool
HandleDfsRead(r) ==
    /\ rdpc[r] = "dfs_read"
    /\ \E ok \in IoOutcomes :
          /\ bs' = IF ok THEN OK ELSE IOError
          /\ bbuf' \in (IF ok THEN {DfsBytes} ELSE AfterFailedTransfer(bbuf))
          /\ cacheFailuresLeft' = Spend(ok)
    /\ bflags' = bflags \ {kCacheBlockDfsRead}
    /\ rdpc' = [rdpc EXCEPT ![r] = "wait_dfs_read"]
    /\ UNCHANGED <<fphase, brefs, ssd, metaValid, rdkind, rds, rdres, rdsaw, nReads>>
    /\ CacheOnly

\* Read lines 851-876: the DFS read is done; the cache fill is scheduled
WaitDfsRead(r) ==
    /\ rdpc[r] = "wait_dfs_read"
    /\ kCacheBlockDfsRead \notin bflags
    /\ bflags' = bflags \cup {kCacheBlockCacheFill}
    /\ rds' = [rds EXCEPT ![r] = IF bs # OK /\ rds[r] = OK THEN bs ELSE rds[r]]
    /\ rdpc' = [rdpc EXCEPT ![r] = "cache_fill"]
    /\ UNCHANGED <<fphase, bs, bbuf, brefs, ssd, metaValid, rdkind, rdres, rdsaw,
                   nReads, cacheFailuresLeft>>
    /\ CacheOnly

\* HandleCacheWrite (lines 1074-1089), on the bg_fill_ pool: LogRecord, then
\* BlockCacheImpl::FillCache
HandleCacheWrite(r) ==
    /\ rdpc[r] = "cache_fill"
    /\ \E f \in {"none", "LogRecord", "pwrite"} :
          /\ f # "none" => cacheFailuresLeft > 0
          /\ bs' = IF f = "none" THEN OK
                   ELSE IF f = "LogRecord" THEN IOError ELSE Corruption
          /\ metaValid' = IF f = "LogRecord" THEN metaValid
                          ELSE kCacheBlockValid \in bflags
          /\ ssd' \in (IF f = "none" THEN {bbuf}
                       ELSE IF f = "pwrite" THEN AfterFailedTransfer(ssd) ELSE {ssd})
          /\ cacheFailuresLeft' = Spend(f = "none")
    /\ bflags' = bflags \ {kCacheBlockCacheFill}
    /\ rdpc' = [rdpc EXCEPT ![r] = "wait_cache_fill"]
    /\ UNCHANGED <<fphase, bbuf, brefs, rdkind, rds, rdres, rdsaw, nReads>>
    /\ CacheOnly

\* a Read that keeps the Locked bit when its fill failed (mutation of
\* AfterCacheFill)
AfterCacheFill_LockedKeptOnError(flags, s) ==
    IF s = OK THEN (flags \cup {kCacheBlockValid}) \ {kCacheBlockLocked} ELSE flags
\* Read lines 883-888: Valid is set if the fill was ok, Locked is cleared
AfterCacheFill(flags, s) ==
    (IF s = OK THEN flags \cup {kCacheBlockValid} ELSE flags) \ {kCacheBlockLocked}

\* Read lines 880-895: the cache fill is done
WaitCacheFill(r) ==
    /\ rdpc[r] = "wait_cache_fill"
    /\ kCacheBlockCacheFill \notin bflags
    /\ bflags' = AfterCacheFill(bflags, bs)
    /\ rds' = [rds EXCEPT ![r] = IF bs # OK /\ rds[r] = OK THEN bs ELSE rds[r]]
    /\ rdsaw' = [rdsaw EXCEPT ![r] = rdsaw[r] \/ bs = OK]
    /\ rdpc' = [rdpc EXCEPT ![r] = "fill_user_mem"]
    /\ UNCHANGED <<fphase, bs, bbuf, brefs, ssd, metaValid, rdkind, rdres, nReads,
                   cacheFailuresLeft>>
    /\ CacheOnly

\* HandleCacheRead (lines 1019-1029), on the bg_read_ pool
HandleCacheRead(r) ==
    /\ rdpc[r] = "cache_read"
    /\ \E ok \in IoOutcomes :
          /\ bs' = IF ok THEN OK ELSE Corruption
          /\ bbuf' \in (IF ok THEN {ssd} ELSE AfterFailedTransfer(bbuf))
          /\ cacheFailuresLeft' = Spend(ok)
    /\ bflags' = bflags \ {kCacheBlockCacheRead}
    /\ rdpc' = [rdpc EXCEPT ![r] = "wait_cache_read"]
    /\ UNCHANGED <<fphase, brefs, ssd, metaValid, rdkind, rds, rdres, rdsaw, nReads>>
    /\ CacheOnly

\* Read lines 832-846: the cache read is done
WaitCacheRead(r) ==
    /\ rdpc[r] = "wait_cache_read"
    /\ kCacheBlockCacheRead \notin bflags
    /\ bflags' = bflags \ {kCacheBlockLocked}
    /\ rds' = [rds EXCEPT ![r] = IF bs # OK /\ rds[r] = OK THEN bs ELSE rds[r]]
    /\ rdpc' = [rdpc EXCEPT ![r] = "fill_user_mem"]
    /\ UNCHANGED <<fphase, bs, bbuf, brefs, ssd, metaValid, rdkind, rdres, rdsaw,
                   nReads, cacheFailuresLeft>>
    /\ CacheOnly

\* Read lines 900-908: the block another Read had locked is unlocked
WaitLocked(r) ==
    /\ rdpc[r] = "wait_locked"
    /\ kCacheBlockLocked \notin bflags
    /\ rdsaw' = [rdsaw EXCEPT ![r] = rdsaw[r] \/ kCacheBlockValid \in bflags]
    /\ rdpc' = [rdpc EXCEPT ![r] = "fill_user_mem"]
    /\ UNCHANGED <<fphase, bflags, bs, bbuf, brefs, ssd, metaValid, rdkind, rds,
                   rdres, nReads, cacheFailuresLeft>>
    /\ CacheOnly

\* Read lines 913-935: the bytes of data_block are copied to the user
FillUserMem(r) ==
    /\ rdpc[r] = "fill_user_mem"
    /\ rdres' = [rdres EXCEPT ![r] = bbuf]
    /\ rdpc' = [rdpc EXCEPT ![r] = "release"]
    /\ UNCHANGED <<fphase, bflags, bs, bbuf, brefs, ssd, metaValid, rdkind, rds,
                   rdsaw, nReads, cacheFailuresLeft>>
    /\ CacheOnly

\* a release that drops every reference (mutation of ReleaseDataBlock)
ReleaseDataBlock_All(refs) == 0
\* CacheBlock::ReleaseDataBlock lines 120-121, with the handle that
\* ReleaseBlock gives back at line 1671: one reference less
ReleaseDataBlock(refs) == refs - 1

\* BlockCacheImpl::ReleaseBlock (lines 1656-1673), need_sync for a miss
ReleaseBlock(r) ==
    /\ rdpc[r] = "release"
    /\ \E ok \in IoOutcomes :
          /\ ~ok => rdkind[r] = "miss"
          /\ metaValid' = IF rdkind[r] = "miss" /\ ok THEN kCacheBlockValid \in bflags
                          ELSE metaValid
          /\ cacheFailuresLeft' = Spend(ok)
    /\ brefs' = ReleaseDataBlock(brefs)
    /\ bbuf' = IF brefs = 1 THEN NoBytes ELSE bbuf
    /\ bs' = OK
    /\ rdpc' = [rdpc EXCEPT ![r] = "degrade"]
    /\ UNCHANGED <<fphase, bflags, ssd, rdkind, rds, rdres, rdsaw, nReads>>
    /\ CacheOnly

\* Read lines 957-968: a Read whose s is not ok reads from the DFS
ReadReturn(r) ==
    /\ rdpc[r] = "degrade"
    /\ IF rds[r] = OK
       THEN UNCHANGED <<rds, rdres, cacheFailuresLeft>>
       ELSE \E ok \in IoOutcomes :
               /\ rds' = [rds EXCEPT ![r] = IF ok THEN OK ELSE IOError]
               /\ rdres' = [rdres EXCEPT ![r] = IF ok THEN DfsBytes ELSE rdres[r]]
               /\ cacheFailuresLeft' = Spend(ok)
    /\ rdpc' = [rdpc EXCEPT ![r] = "done"]
    /\ UNCHANGED <<fphase, bflags, bs, bbuf, brefs, ssd, metaValid, rdkind, rdsaw,
                   nReads>>
    /\ CacheOnly

\* the data set's cache evicts the block, which no Read holds: the next
\* GetAndAllocBlock makes a new CacheBlock (lines 1613-1623)
Evict ==
    /\ fphase = "closed"
    /\ brefs = 0
    /\ bflags # {}
    /\ bflags' = {}
    /\ UNCHANGED <<fphase, bs, bbuf, brefs, ssd, metaValid, readerVars,
                   cacheFailuresLeft>>
    /\ CacheOnly

\* the server restarts and BlockCacheImpl::ReloadDataSet rebuilds the block
\* from its DS# record (line 1375)
ReloadDataSet ==
    /\ fphase = "closed"
    /\ \E r \in Readers : rdpc[r] # "idle"
    /\ bflags' = IF metaValid THEN {kCacheBlockValid} ELSE {}
    /\ bs' = OK /\ bbuf' = NoBytes /\ brefs' = 0
    /\ rdpc' = [r \in Readers |-> "idle"]
    /\ rdkind' = [r \in Readers |-> "none"]
    /\ rds' = [r \in Readers |-> OK]
    /\ rdres' = [r \in Readers |-> NoBytes]
    /\ rdsaw' = [r \in Readers |-> FALSE]
    /\ UNCHANGED <<fphase, ssd, metaValid, nReads, cacheFailuresLeft>>
    /\ CacheOnly

NextCache ==
    \/ FillCache
    \/ \E r \in Readers : ReadBegin(r)
    \/ \E r \in Readers : HandleDfsRead(r)
    \/ \E r \in Readers : WaitDfsRead(r)
    \/ \E r \in Readers : HandleCacheWrite(r)
    \/ \E r \in Readers : WaitCacheFill(r)
    \/ \E r \in Readers : HandleCacheRead(r)
    \/ \E r \in Readers : WaitCacheRead(r)
    \/ \E r \in Readers : WaitLocked(r)
    \/ \E r \in Readers : FillUserMem(r)
    \/ \E r \in Readers : ReleaseBlock(r)
    \/ \E r \in Readers : ReadReturn(r)
    \/ Evict
    \/ ReloadDataSet

SpecCache == InitCache /\ [][NextCache]_vars

\* C12: a Read through the block cache that returns ok and found the block
\* Valid, or saw it become Valid, returns the bytes the DFS holds for the
\* block, under every interleaving of the Reads and cache fills of the block.
C12_AsStated ==
    \A r \in Readers :
       (rdpc[r] = "done" /\ rds[r] = OK /\ rdsaw[r]) => rdres[r] = DfsBytes

(***************************************************************************)
(* The file ids of the block cache: FileId, LockAndPut and DeleteFile for  *)
(* one path.                                                               *)
(***************************************************************************)
Openers == 1..NumOpeners
NoLock == [exists |-> FALSE, done |-> FALSE, wait_num |-> 0]

InitMeta ==
    /\ fname_fid = 0 /\ new_fid_ = 0 /\ lock_key_ = NoLock
    /\ opc = [o \in Openers |-> "idle"]
    /\ ofid = [o \in Openers |-> 0]
    /\ blockKeys = {} /\ dsRecords = {}
    /\ dpc = "idle" /\ dfid = 0 /\ dlocked = FALSE
    /\ nOpens = 0
    /\ EngineIdle /\ CompactIdle /\ RecoverIdle /\ NodeIdle /\ CacheIdle /\ LaterIdle

MetaOnly ==
    UNCHANGED <<engineVars, compactVars, recoverVars, nodeVars, cacheVars, laterVars>>

\* AllocFileId that hands out the same fid again (mutation of AllocFileId)
AllocFileId_Reuse == Max(1, new_fid_)

\* BlockCacheImpl::AllocFileId line 1490: fid = ++new_fid_
AllocFileId == new_fid_ + 1

\* LockAndPut lines 1223-1249: the caller takes the key's lock, or joins the
\* waiters of the entry it finds
LockKey == IF lock_key_.exists
           THEN [lock_key_ EXCEPT !.wait_num = @ + 1]
           ELSE [exists |-> TRUE, done |-> FALSE, wait_num |-> 1]

\* LockAndPut lines 1233-1267: a caller leaves; the last one erases the entry,
\* the holder signals the waiters it leaves behind
UnlockKey == IF lock_key_.wait_num = 1 THEN NoLock
             ELSE [lock_key_ EXCEPT !.wait_num = @ - 1, !.done = TRUE]

\* FileId lines 1519-1544 up to LockAndPut's lock: db_->Get of the FNAME# key
FileId(o) ==
    /\ opc[o] \in {"idle", "cached"}
    /\ nOpens < MaxOpens
    /\ nOpens' = nOpens + 1
    /\ IF fname_fid # 0
       THEN /\ ofid' = [ofid EXCEPT ![o] = fname_fid]
            /\ opc' = [opc EXCEPT ![o] = "opened"]
       ELSE /\ ofid' = [ofid EXCEPT ![o] = 0]
            /\ opc' = [opc EXCEPT ![o] = "alloc"]
    /\ UNCHANGED <<fname_fid, new_fid_, lock_key_, blockKeys, dsRecords, dpc, dfid,
                   dlocked>>
    /\ MetaOnly

\* FileId lines 1526-1539: under mu_, AllocFileId and LockAndPut's lock
FileIdLock(o) ==
    /\ opc[o] = "alloc"
    /\ new_fid_' = AllocFileId
    /\ ofid' = [ofid EXCEPT ![o] = AllocFileId]
    /\ opc' = [opc EXCEPT ![o] = IF lock_key_.exists THEN "wait" ELSE "put"]
    /\ lock_key_' = LockKey
    /\ UNCHANGED <<fname_fid, blockKeys, dsRecords, dpc, dfid, dlocked, nOpens>>
    /\ MetaOnly

\* PutContentAfterLock lines 1301-1306 and LockAndPut lines 1252-1267
FileIdPut(o) ==
    /\ opc[o] = "put"
    /\ fname_fid' = ofid[o]
    /\ lock_key_' = UnlockKey
    /\ opc' = [opc EXCEPT ![o] = "opened"]
    /\ UNCHANGED <<new_fid_, ofid, blockKeys, dsRecords, dpc, dfid, dlocked, nOpens>>
    /\ MetaOnly

\* GetContentAfterWait lines 1276-1278 and FileId lines 1540-1541: the
\* waiter reads the record the holder left; if there is none, assert(s.ok())
\* fails
FileIdWait(o) ==
    /\ opc[o] = "wait"
    /\ lock_key_.done
    /\ lock_key_' = UnlockKey
    /\ IF fname_fid # 0
       THEN /\ ofid' = [ofid EXCEPT ![o] = fname_fid]
            /\ opc' = [opc EXCEPT ![o] = "opened"]
       ELSE /\ ofid' = [ofid EXCEPT ![o] = 0]
            /\ opc' = [opc EXCEPT ![o] = "aborted"]
    /\ UNCHANGED <<fname_fid, new_fid_, blockKeys, dsRecords, dpc, dfid, dlocked,
                   nOpens>>
    /\ MetaOnly

\* the open file caches a block: GetAndAllocBlock keys it by the fid, and
\* LogRecord writes its DS# record
CacheBlockOfFile(o) ==
    /\ opc[o] = "opened"
    /\ blockKeys' = blockKeys \cup {ofid[o]}
    /\ dsRecords' = dsRecords \cup {ofid[o]}
    /\ opc' = [opc EXCEPT ![o] = "cached"]
    /\ UNCHANGED <<fname_fid, new_fid_, lock_key_, ofid, dpc, dfid, dlocked, nOpens>>
    /\ MetaOnly

\* a data set's cache evicts a block that no open file is using
EvictBlock(f) ==
    /\ f \in blockKeys
    /\ \A o \in Openers : ofid[o] # f
    /\ blockKeys' = blockKeys \ {f}
    /\ UNCHANGED <<fname_fid, new_fid_, lock_key_, opc, ofid, dsRecords, dpc, dfid,
                   dlocked, nOpens>>
    /\ MetaOnly

\* BlockCacheImpl::DeleteFile lines 1561-1566 and LockAndPut's lock
DeleteFile ==
    /\ dpc = "idle"
    /\ dfid' = fname_fid
    /\ dlocked' = ~lock_key_.exists
    /\ dpc' = IF lock_key_.exists THEN "wait" ELSE "delete"
    /\ lock_key_' = LockKey
    /\ UNCHANGED <<fname_fid, new_fid_, opc, ofid, blockKeys, dsRecords, nOpens>>
    /\ MetaOnly

\* PutContentAfterLock lines 1312-1314: db_->Delete of the FNAME# key
DeleteFilePut ==
    /\ dpc = "delete"
    /\ fname_fid' = 0
    /\ lock_key_' = UnlockKey
    /\ dpc' = "done"
    /\ UNCHANGED <<new_fid_, opc, ofid, blockKeys, dsRecords, dfid, dlocked, nOpens>>
    /\ MetaOnly

\* GetContentAfterWait for kDeleteDBKey: nothing is done, the Status is ok
DeleteFileWait ==
    /\ dpc = "wait"
    /\ lock_key_.done
    /\ lock_key_' = UnlockKey
    /\ dpc' = "done"
    /\ UNCHANGED <<fname_fid, new_fid_, opc, ofid, blockKeys, dsRecords, dfid,
                   dlocked, nOpens>>
    /\ MetaOnly

NextMeta ==
    \/ \E o \in Openers : FileId(o)
    \/ \E o \in Openers : FileIdLock(o)
    \/ \E o \in Openers : FileIdPut(o)
    \/ \E o \in Openers : FileIdWait(o)
    \/ \E o \in Openers : CacheBlockOfFile(o)
    \/ \E f \in 1..MaxOpens : EvictBlock(f)
    \/ DeleteFile
    \/ DeleteFilePut
    \/ DeleteFileWait

SpecMeta == InitMeta /\ [][NextMeta]_vars

\* C13 as stated: after DeleteFile has returned, no key of the cache carries
\* the fid the path had: no cached block and no meta record.
C13_AsStated ==
    (dpc = "done" /\ dfid # 0) =>
        /\ dfid \notin blockKeys
        /\ dfid \notin dsRecords
        /\ fname_fid # dfid

\* C13, amended: after a DeleteFile that took the key's lock itself has
\* returned, the path's FNAME# record no longer names the fid the path had,
\* and no file opened from then on gets that fid (fids are never reused), so
\* the blocks of the old fid, which stay in the cache, are never read again
\* under that path.
C13_DeleteFileUnmapsPath ==
    /\ [](dpc = "done" /\ dlocked /\ dfid # 0 => fname_fid # dfid)
    /\ [][\A o \in Openers :
            (dpc = "done" /\ dlocked /\ dfid # 0 /\ opc[o] \in {"idle", "cached"}
             /\ opc'[o] # opc[o]) => ofid'[o] # dfid]_vars

\* C13 happens: DeleteFile has deleted the record of a path whose blocks are
\* cached, and the path has been opened again under a new fid
C13_Witness ==
    /\ dpc = "done" /\ dlocked /\ dfid # 0
    /\ dfid \in blockKeys
    /\ fname_fid # 0 /\ fname_fid # dfid

\* C16: when TabletIO::Load fails in LoadTablet, the handler's answer is
\* kIOError with the corruption message of phase kLoading for the tablet, and
\* by then the manager holds no tablet of the request's range nor one that
\* overlaps it, so that a lookup of the range finds none and AddTablet of a
\* later LoadTablet of the range succeeds.
C16_FailedLoadRemovesTablet ==
    [][\A h \in Handlers :
          (hpc[h] = "remove" /\ hreq[h].op = "LoadTablet" /\ hpc'[h] = "idle") =>
              /\ {t \in tablet_list_' : RangeOverlap(t.range, hreq[h].range)} = {}
              /\ reply'.op = "LoadTablet"
              /\ reply'.status = "kIOError"
              /\ reply'.detail = SerializeCorrupt("kLoading", hreq[h].range)]_vars

\* C16 happens: a load has failed and been answered, and a later LoadTablet
\* of the same range has been accepted and is loading
C16_Witness ==
    /\ reply.op = "LoadTablet" /\ reply.status = "kIOError"
    /\ reply.detail.phase = "kLoading"
    /\ \E h \in Handlers : /\ hpc[h] = "load"
                            /\ hreq[h].range = reply.detail.range
                            /\ TabletsOfRange(reply.detail.range) # {}

\* C17: the response of WriteTablet has the status kTabletNodeOk and one
\* status for every row of the request, at the row's index: kKeyNotInRange
\* for a row whose key is in no tablet of the manager, kTabletNodeOk for a
\* row of a tablet that is ready, which is written whatever the other rows
\* are, and the tablet's status for a row of a tablet that is not ready.
C17_RowStatusAtRowIndex ==
    [][(/\ reply'.op = "WriteTablet"
        /\ hpc' = hpc
        /\ (reply' # reply \/ tablet_list_' # tablet_list_)) =>
           /\ reply'.status = "kTabletNodeOk"
           /\ DOMAIN reply'.row_status_list = DOMAIN reply'.row_list
           /\ \A i \in DOMAIN reply'.row_list :
                 LET key == reply'.row_list[i]
                     st == reply'.row_status_list[i]
                 IN  /\ TabletsOfKey(key) = {} => st = "kKeyNotInRange"
                     /\ \A t \in TabletsOfKey(key) :
                           /\ t.status # "kReady" => st = t.status
                           /\ t.status = "kReady" =>
                                 /\ st = "kTabletNodeOk"
                                 /\ [t EXCEPT !.dirty = TRUE] \in tablet_list_']_vars

\* C17 happens: a write of two rows has been answered, the first row written
\* to a tablet, the second refused for a key that is in no tablet
C17_Witness ==
    /\ reply.op = "WriteTablet" /\ reply.status = "kTabletNodeOk"
    /\ Len(reply.row_list) = 2
    /\ reply.row_status_list = <<"kTabletNodeOk", "kKeyNotInRange">>
    /\ \E t \in TabletsOfKey(reply.row_list[1]) : t.dirty
    /\ TabletsOfKey(reply.row_list[2]) = {}

(***************************************************************************)
(* TabletNodeImpl::GarbageCollect: the files of the local cache directory  *)
(* and the keys of the persistent cache that no tablet of the server uses  *)
(* are removed.  The model has one table with the tablets GcTablets and a  *)
(* directory "P" of a tablet that is not on the server (the parent of a    *)
(* split); each directory holds one file, named by its directory.          *)
(***************************************************************************)
GcTablets == {"A", "B"}
GcDirs == GcTablets \cup {"P"}

InitGC ==
    /\ gtablets = [t \in GcTablets |-> "absent"]
    /\ ginherits \in [GcTablets -> SUBSET {"P"}]
    /\ pcache = {} /\ flash = {}
    /\ delayed_gc_files_ = {}
    /\ gcEvictedLive = {} /\ gcDeletedLive = {}
    /\ nCycles = 0
    /\ EngineIdle /\ CompactIdle /\ RecoverIdle /\ NodeIdle /\ CacheIdle /\ MetaIdle
    /\ ShardIdle /\ LimiterIdle /\ ShutIdle /\ ParIdle /\ LastIdle

GcOnly ==
    UNCHANGED <<engineVars, compactVars, recoverVars, nodeVars, cacheVars, metaVars,
                shardVars, limiterVars, shutVars, parVars, lastVars>>

\* tablet_manager_->GetAllTabletMeta: the directories of the tablets the
\* manager holds, whatever their status
ActiveTablets == {t \in GcTablets : gtablets[t] # "absent"}

\* TabletIO::AddInheritedLiveFiles succeeds on a tablet that is ready
TabletReady(t) == gtablets[t] = "ready"

\* GetInheritedLiveFiles(std::vector<InheritedLiveFiles>&): the first tablet
\* that is not ready clears the table's list and the table is left out
GetInheritedLiveFiles ==
    IF \E t \in ActiveTablets : ~TabletReady(t) THEN {}
    ELSE UNION {ginherits[t] : t \in ActiveTablets}

\* a tablet of the server uses the file: the file is of a tablet the manager
\* holds, or a ready tablet inherits it
FileInUse(f) ==
    \/ f \in ActiveTablets
    \/ \E t \in GcTablets : TabletReady(t) /\ f \in ginherits[t]

\* LoadTablet adds the tablet to the manager before it opens the engines
GcLoadTablet(t) ==
    /\ gtablets[t] = "absent"
    /\ gtablets' = [gtablets EXCEPT ![t] = "loading"]
    /\ UNCHANGED <<ginherits, pcache, flash, delayed_gc_files_, gcEvictedLive,
                   gcDeletedLive, nCycles>>
    /\ GcOnly

\* the engines are open: the tablet is ready
GcTabletReady(t) ==
    /\ gtablets[t] = "loading"
    /\ gtablets' = [gtablets EXCEPT ![t] = "ready"]
    /\ UNCHANGED <<ginherits, pcache, flash, delayed_gc_files_, gcEvictedLive,
                   gcDeletedLive, nCycles>>
    /\ GcOnly

\* UnloadTablet, or a load that failed: the tablet leaves the manager
GcUnloadTablet(t) ==
    /\ gtablets[t] # "absent"
    /\ gtablets' = [gtablets EXCEPT ![t] = "absent"]
    /\ UNCHANGED <<ginherits, pcache, flash, delayed_gc_files_, gcEvictedLive,
                   gcDeletedLive, nCycles>>
    /\ GcOnly

\* a ready tablet reads a file of its own or one it inherits: the file comes
\* into the local cache directory and into the persistent cache
GcCacheFile(f) ==
    /\ \E t \in GcTablets : TabletReady(t) /\ (f = t \/ f \in ginherits[t])
    /\ pcache' = pcache \cup {f}
    /\ flash' = flash \cup {f}
    /\ UNCHANGED <<gtablets, ginherits, delayed_gc_files_, gcEvictedLive,
                   gcDeletedLive, nCycles>>
    /\ GcOnly

\* PersistentCacheGarbageCollect: the keys it force-evicts
ForceEvicted(inherited_files, active_tablets) ==
    {k \in pcache : /\ k \notin inherited_files
                    /\ k \notin active_tablets
                    /\ k \in delayed_gc_files_}

\* PersistentCacheGarbageCollect: new_delayed_gc_files
NewDelayedGcFiles(inherited_files, active_tablets) ==
    {k \in pcache : /\ k \notin inherited_files
                    /\ k \notin active_tablets
                    /\ k \notin delayed_gc_files_}

\* GarbageCollectInPath: the files it deletes, those of the directories of no
\* active tablet that are not inherited
DeletedInPath(inherited_files, active_tablets) ==
    {f \in flash : f \notin active_tablets /\ f \notin inherited_files}

\* one call of GarbageCollect
GarbageCollect ==
    /\ nCycles < MaxGcCycles
    /\ LET inherited_files == GetInheritedLiveFiles
           active_tablets == ActiveTablets
           evicted == ForceEvicted(inherited_files, active_tablets)
           deleted == DeletedInPath(inherited_files, active_tablets)
       IN  /\ pcache' = pcache \ evicted
           /\ delayed_gc_files_' = NewDelayedGcFiles(inherited_files, active_tablets)
           /\ flash' = flash \ deleted
           /\ gcEvictedLive' = gcEvictedLive \cup {k \in evicted : FileInUse(k)}
           /\ gcDeletedLive' = gcDeletedLive \cup {f \in deleted : FileInUse(f)}
    /\ nCycles' = nCycles + 1
    /\ UNCHANGED <<gtablets, ginherits>>
    /\ GcOnly

NextGC ==
    \/ \E t \in GcTablets : GcLoadTablet(t)
    \/ \E t \in GcTablets : GcTabletReady(t)
    \/ \E t \in GcTablets : GcUnloadTablet(t)
    \/ \E f \in GcDirs : GcCacheFile(f)
    \/ GarbageCollect

SpecGC == InitGC /\ [][NextGC]_vars

\* C14 as stated: a key of the persistent cache that a tablet of the server
\* uses (the key is of a tablet the manager holds, or a ready tablet inherits
\* it) by the time of a garbage collection cycle is not evicted by the cycle,
\* even if an earlier cycle put it on the delayed-gc list.
C14_AsStated == gcEvictedLive = {}

\* C15 as stated: GarbageCollectInPath never deletes a file of a tablet the
\* manager holds nor a file a ready tablet inherits, whatever the status of
\* the other tablets of the table.
C15_AsStated == gcDeletedLive = {}

(***************************************************************************)
(* ReadTabletTask (SpecShard): one batch read of NumShards * RowsPerShard  *)
(* rows, split by StartRead into shards of RowsPerShard rows that run      *)
(* DoRead concurrently, the last one on the caller's thread.               *)
(***************************************************************************)
Shards == 1..NumShards
Rows == 1..(NumShards * RowsPerShard)
\* ShardRequest::offset of shard s
ShardOffset(s) == (s - 1) * RowsPerShard

\* the request as StartRead has split it
ShardStart ==
    /\ deadline_passed = FALSE
    /\ row_has_tablet \in [Rows -> BOOLEAN]
    /\ shpc = [s \in Shards |-> "queued"]
    /\ shindex = [s \in Shards |-> 0]
    /\ row_status = [i \in Rows |-> "none"]
    /\ has_timeout_ = FALSE
    /\ finished_ = 0
    /\ resp_status = "none"
    /\ rowsAfterTimeout = [s \in Shards |-> 0]
    /\ passedAtWork = FALSE

InitShard ==
    /\ ShardStart
    /\ EngineIdle /\ CompactIdle /\ RecoverIdle /\ NodeIdle /\ CacheIdle /\ MetaIdle
    /\ GcIdle /\ LimiterIdle /\ ShutIdle /\ ParIdle /\ LastIdle

ShardOnly ==
    UNCHANGED <<engineVars, compactVars, recoverVars, nodeVars, cacheVars, metaVars,
                gcVars, limiterVars, shutVars, parVars, lastVars>>

\* the client's deadline passes while the request is being worked on
DeadlinePasses ==
    /\ ~deadline_passed
    /\ resp_status = "none"
    /\ deadline_passed' = TRUE
    /\ passedAtWork' = TRUE
    /\ UNCHANGED <<row_has_tablet, shpc, shindex, row_status, has_timeout_, finished_,
                   resp_status, rowsAfterTimeout>>
    /\ ShardOnly

\* the row_status TabletIO::ReadCells can leave: it reports kRPCTimeout only
\* when the time that remained has run out
ReadCellsOutcomes ==
    {"kTabletNodeOk", "kKeyNotExist"}
        \cup (IF deadline_passed THEN {"kRPCTimeout"} ELSE {})

\* a shard that goes on until its own row times out (mutation of TimedOut)
TimedOut_OwnRowOnly(st) == st = "kRPCTimeout"
\* DoRead lines 1368-1369: the test after a row has been handled
TimedOut(st) == st = "kRPCTimeout" \/ has_timeout_

\* one pass of the loop of DoRead (lines 1343-1375) and, when the loop ends,
\* the store to has_timeout_ (1377-1379)
DoRead(s) ==
    /\ shpc[s] \in {"queued", "run"}
    /\ LET index == ShardOffset(s) + shindex[s] + 1
       IN  \E st \in (IF row_has_tablet[index] THEN ReadCellsOutcomes
                      ELSE {"kKeyNotInRange"}) :
              /\ row_status' = [row_status EXCEPT ![index] = st]
              /\ IF TimedOut(st)
                 THEN /\ has_timeout_' = TRUE
                      /\ shpc' = [shpc EXCEPT ![s] = "finish"]
                      /\ UNCHANGED shindex
                 ELSE /\ shindex' = [shindex EXCEPT ![s] = @ + 1]
                      /\ shpc' = [shpc EXCEPT ![s] =
                                    IF shindex[s] + 1 < RowsPerShard THEN "run"
                                    ELSE "finish"]
                      /\ UNCHANGED has_timeout_
    /\ rowsAfterTimeout' = [rowsAfterTimeout EXCEPT ![s] =
                               IF has_timeout_ THEN @ + 1 ELSE @]
    /\ UNCHANGED <<deadline_passed, row_has_tablet, finished_, resp_status,
                   passedAtWork>>
    /\ ShardOnly

\* ReadTabletTask::FinishShardRequest
FinishShardRequest(s) ==
    /\ shpc[s] = "finish"
    /\ shpc' = [shpc EXCEPT ![s] = "done"]
    /\ finished_' = finished_ + RowsPerShard
    /\ resp_status' = IF finished_ + RowsPerShard = NumShards * RowsPerShard
                      THEN (IF has_timeout_ THEN "kRPCTimeout" ELSE "kTabletNodeOk")
                      ELSE resp_status
    /\ UNCHANGED <<deadline_passed, row_has_tablet, shindex, row_status, has_timeout_,
                   rowsAfterTimeout, passedAtWork>>
    /\ ShardOnly

NextShard ==
    \/ DeadlinePasses
    \/ \E s \in Shards : DoRead(s)
    \/ \E s \in Shards : FinishShardRequest(s)

SpecShard == InitShard /\ [][NextShard]_vars

\* C18 as stated: when the deadline passes while the request is being worked
\* on, no shard handles a further row once the time-out is known, and the
\* response is kRPCTimeout.
C18_AsStated ==
    /\ \A s \in Shards : rowsAfterTimeout[s] = 0
    /\ (resp_status # "none" /\ passedAtWork) => resp_status = "kRPCTimeout"

\* C18, amended: the time-out is known to the request once the read of a row
\* reports kRPCTimeout, which needs the deadline to have passed; from then on
\* every shard handles at most one more row (the test of has_timeout_ comes
\* after the row), and the response is kRPCTimeout exactly if a row reported
\* it.  A deadline that passes without any row reporting it leaves the
\* response kTabletNodeOk.
C18_TimeoutShortCircuits ==
    /\ \A s \in Shards : rowsAfterTimeout[s] <= 1
    /\ has_timeout_ <=> \E i \in Rows : row_status[i] = "kRPCTimeout"
    /\ has_timeout_ => deadline_passed
    /\ resp_status # "none" =>
          /\ \A s \in Shards : shpc[s] = "done"
          /\ resp_status = (IF has_timeout_ THEN "kRPCTimeout" ELSE "kTabletNodeOk")

\* C18 happens: the request has been answered kRPCTimeout, a shard handled
\* one row after the time-out was known, and a row was never read
C18_Witness ==
    /\ resp_status = "kRPCTimeout"
    /\ \E s \in Shards : rowsAfterTimeout[s] = 1
    /\ \E i \in Rows : row_status[i] = "none"

(***************************************************************************)
(* The limiter of remote reads (SpecLimiter): InitDfsReadThreadLimiter     *)
(* sets the limit from the size of the read pool and the ratio flag; a     *)
(* remote read takes a unit of the limit or is refused with Status Reject. *)
(***************************************************************************)
PoolThreads == 1..MaxReadThreads

\* a limit that is not clamped to the pool size (mutation of ThreadLimit)
ThreadLimit_NoClamp(ratio, num) == Max(1, (ratio * num) \div 4)
\* InitDfsReadThreadLimiter lines 1484-1488, the ratio in quarters: the cast
\* to int64_t truncates the product
ThreadLimit(ratio, num) == Max(1, Min(num, (ratio * num) \div 4))

\* the server after TabletNodeImpl::Init
InitLimiter ==
    /\ read_thread_num \in 1..MaxReadThreads
    /\ ratio4 \in 0..MaxRatioQuarters
    /\ limit_ = ThreadLimit(ratio4, read_thread_num)
    /\ tpc = [t \in PoolThreads |-> "idle"]
    /\ tlast = [t \in PoolThreads |-> "none"]
    /\ dfsRunning = 0
    /\ EngineIdle /\ CompactIdle /\ RecoverIdle /\ NodeIdle /\ CacheIdle /\ MetaIdle
    /\ GcIdle /\ ShardIdle /\ ShutIdle /\ ParIdle /\ LastIdle

LimiterOnly ==
    UNCHANGED <<engineVars, compactVars, recoverVars, nodeVars, cacheVars, metaVars,
                gcVars, shardVars, shutVars, parVars, lastVars>>

\* a thread of the pool starts a remote read: it runs if the limit is not
\* used up and is refused otherwise
DfsReadBegin(t) ==
    /\ t <= read_thread_num
    /\ tpc[t] = "idle"
    /\ IF dfsRunning < limit_
       THEN /\ dfsRunning' = dfsRunning + 1
            /\ tpc' = [tpc EXCEPT ![t] = "dfs"]
            /\ UNCHANGED tlast
       ELSE /\ tlast' = [tlast EXCEPT ![t] = "Reject"]
            /\ UNCHANGED <<dfsRunning, tpc>>
    /\ UNCHANGED <<read_thread_num, ratio4, limit_>>
    /\ LimiterOnly

\* the remote read returns
DfsReadEnd(t) ==
    /\ tpc[t] = "dfs"
    /\ dfsRunning' = dfsRunning - 1
    /\ tpc' = [tpc EXCEPT ![t] = "idle"]
    /\ tlast' = [tlast EXCEPT ![t] = "OK"]
    /\ UNCHANGED <<read_thread_num, ratio4, limit_>>
    /\ LimiterOnly

NextLimiter ==
    \/ \E t \in PoolThreads : DfsReadBegin(t)
    \/ \E t \in PoolThreads : DfsReadEnd(t)

SpecLimiter == InitLimiter /\ [][NextLimiter]_vars

\* C19 as stated: the limit is less than the size of the read pool, so that
\* the remote reads in progress are fewer than the threads of the pool.
C19_AsStated == limit_ < read_thread_num /\ dfsRunning < read_thread_num

\* C19, amended: the limit is max(1, min(pool size, trunc(ratio * pool
\* size))), at most the pool size and less than it only if the ratio is less
\* than 1 and the pool has two threads or more; the remote reads in progress
\* never exceed the limit, and a read that starts while the limit is used up
\* is refused with Reject and neither started nor queued.
C19_LimiterCapsDfsReads ==
    /\ [](/\ dfsRunning <= limit_
          /\ limit_ >= 1 /\ limit_ <= read_thread_num
          /\ (ratio4 < 4 /\ read_thread_num >= 2) => limit_ < read_thread_num
          /\ ratio4 >= 4 => limit_ = read_thread_num)
    /\ [][\A t \in PoolThreads :
            (dfsRunning = limit_ /\ tpc[t] = "idle"
             /\ (tpc'[t] # tpc[t] \/ tlast'[t] # tlast[t] \/ dfsRunning' > dfsRunning))
               => /\ tlast'[t] = "Reject"
                  /\ tpc'[t] = "idle"
                  /\ dfsRunning' = dfsRunning]_vars

\* C19 happens: the limit is less than the pool size and used up, and a read
\* of another thread has been refused
C19_Witness ==
    /\ limit_ < read_thread_num
    /\ dfsRunning = limit_
    /\ \E t \in PoolThreads : tpc[t] = "idle" /\ tlast[t] = "Reject"

(***************************************************************************)
(* Shutdown of the engine (SpecShutdown): DBImpl::Shutdown1 and Shutdown2  *)
(* as the unload of the tablet calls them, with writes and background work *)
(* going on.  Writes go on during Shutdown1; the tablet layer lets no new  *)
(* write in once Shutdown1 has returned (kUnLoading2) and calls Shutdown2  *)
(* when the writes under way have returned.                                *)
(***************************************************************************)
InitShutdown == InitEngine /\ failuresLeft = 0 /\ ~paranoid_checks

ShutFrame ==
    UNCHANGED <<compactVars, recoverVars, nodeVars, cacheVars, metaVars, gcVars,
                shardVars, limiterVars, parVars, lastVars>>

\* the tablet layer hands a write to the engine while the tablet takes writes
ShutdownWrite(w) ==
    /\ sdpc \notin {"kUnLoading2", "dump2", "kShutdown2"}
    /\ TableWrite(w)

\* Shutdown1 lines 201-211: shutting_down_ is set and the tasks are hurried
Shutdown1(dump) ==
    /\ sdpc = "kOpened"
    /\ shutting_down_' = TRUE
    /\ sdpc' = "wait_bg"
    /\ sdump' = dump
    /\ UNCHANGED <<writerVars, memVars, verVars, snapVars, errVars, taskVars, readVars>>
    /\ ShutFrame

\* Shutdown1 lines 212-228: no background task is left; the immutable
\* memtable, if there is one, is dumped first
Shutdown1AfterTasks ==
    /\ sdpc = "wait_bg"
    /\ \A t \in Tasks : task[t] = "free"
    /\ sdpc' = IF IsIOPermissionDenied(bg_error_) \/ ~sdump THEN "kShutdown1"
               ELSE IF imm_ # 0 THEN "dump_imm"
               ELSE "wait_mem"
    /\ UNCHANGED <<sdump, engineVars>>
    /\ ShutFrame

\* CompactMemTable called by Shutdown1 or Shutdown2: the immutable memtable
\* becomes a table file, or is dropped if it is empty
CompactMemTable(next) ==
    /\ IF ApproximateMemoryUsage(imm_) <= 0
       THEN UNCHANGED <<sst, numL0, ver_last_sequence>>
       ELSE /\ sst' = sst \cup {w \in Writes : memOf[w] = imm_}
            /\ \E level0 \in BOOLEAN : numL0' = IF level0 THEN numL0 + 1 ELSE numL0
            /\ ver_last_sequence' = IF MemLastSequence(imm_) # 0
                                    THEN MemLastSequence(imm_)
                                    ELSE ver_last_sequence
    /\ imm_' = 0
    /\ being_flushed' = FALSE
    /\ sdpc' = next
    /\ UNCHANGED <<writerVars, memOf, mem_, is_writting_mem_, applied, being_compacted,
                   snapVars, errVars, shutting_down_, taskVars, readVars, sdump>>
    /\ ShutFrame

\* Shutdown1 line 229: CompactMemTable of the immutable memtable has returned
Shutdown1ImmDumped ==
    /\ sdpc = "dump_imm"
    /\ CompactMemTable("wait_mem")

\* a Shutdown1 that does not wait for the writer (mutation of Shutdown1Switch)
Shutdown1Switch_NoWait ==
    /\ sdpc = "wait_mem"
    /\ imm_' = mem_
    /\ mem_' = mem_ + 1
    /\ being_flushed' = FALSE
    /\ sdpc' = "dump_mem"
    /\ UNCHANGED <<writerVars, memOf, is_writting_mem_, applied, verVars, snapVars,
                   errVars, shutting_down_, taskVars, readVars, sdump>>
    /\ ShutFrame

\* Shutdown1 lines 231-240: once no writer is inserting, the memtable becomes
\* the immutable one and a new memtable takes its place
Shutdown1Switch ==
    /\ sdpc = "wait_mem"
    /\ ~is_writting_mem_
    /\ imm_' = mem_
    /\ mem_' = mem_ + 1
    /\ being_flushed' = FALSE
    /\ sdpc' = "dump_mem"
    /\ UNCHANGED <<writerVars, memOf, is_writting_mem_, applied, verVars, snapVars,
                   errVars, shutting_down_, taskVars, readVars, sdump>>
    /\ ShutFrame

\* Shutdown1 lines 240-242: the memtable is dumped, Shutdown1 returns
Shutdown1Return ==
    /\ sdpc = "dump_mem"
    /\ CompactMemTable("kShutdown1")

\* the tablet layer after Shutdown1: the tablet is kUnLoading2 and takes no
\* new write
StopWrites ==
    /\ sdpc = "kShutdown1"
    /\ sdpc' = "kUnLoading2"
    /\ UNCHANGED <<sdump, engineVars>>
    /\ ShutFrame

\* Shutdown2 lines 245-263, called when the writes under way have returned:
\* the memtable becomes the immutable one and no memtable takes its place
Shutdown2 ==
    /\ sdpc = "kUnLoading2"
    /\ \A w \in Writes : wpc[w] \in {"idle", "done"}
    /\ IF IsIOPermissionDenied(bg_error_) \/ ~sdump
       THEN /\ sdpc' = "kShutdown2"
            /\ UNCHANGED <<mem_, imm_, being_flushed>>
       ELSE /\ imm_' = mem_
            /\ mem_' = 0
            /\ being_flushed' = FALSE
            /\ sdpc' = "dump2"
    /\ UNCHANGED <<writerVars, memOf, is_writting_mem_, applied, verVars, snapVars,
                   errVars, shutting_down_, taskVars, readVars, sdump>>
    /\ ShutFrame

\* Shutdown2 line 263: CompactMemTable has returned
Shutdown2Return ==
    /\ sdpc = "dump2"
    /\ CompactMemTable("kShutdown2")

NextShutdown ==
    \/ \E w \in Writes : ShutdownWrite(w)
    \/ \E w \in Writes : MakeRoomForWrite(w)
    \/ \E w \in Writes : InsertInto(w)
    \/ \E w \in Writes : WriteCommit(w)
    \/ \E t \in Tasks : BackgroundCall(t)
    \/ \E t \in Tasks : FlushDone(t)
    \/ \E t \in Tasks : CompactionDone(t)
    \/ \E dump \in BOOLEAN : Shutdown1(dump)
    \/ Shutdown1AfterTasks
    \/ Shutdown1ImmDumped
    \/ Shutdown1Switch
    \/ Shutdown1Return
    \/ StopWrites
    \/ Shutdown2
    \/ Shutdown2Return

SpecShutdown == InitShutdown /\ [][NextShutdown]_vars

\* a writer is between the release of the mutex before InsertInto and taking
\* it again
Inserting(w) == wpc[w] \in {"insert", "commit"}

ReadAt(key, snapshot) ==
    GetLookup([snapshot |-> snapshot, mem |-> mem_, imm |-> imm_, ver |-> sst,
               rollbacks |-> rollbacks_, key |-> key])

\* the snapshots a read can be made at: those held in snapshots_ and the
\* latest sequence
ReadPoints == Range(snapshots_) \cup {GetLastSequence}

\* a step in which a compaction installs its outputs
CompactionInstalls ==
    \E t \in Tasks : task[t] = "compact" /\ task'[t] # "compact" /\ sst' # sst

\* C21 as stated: a compaction does not change the result of any read at a
\* snapshot held in snapshots_ or at the latest sequence.
C21_AsStated ==
    [][CompactionInstalls =>
          \A key \in Keys : \A snapshot \in ReadPoints :
              ReadAt(key, snapshot)' = ReadAt(key, snapshot)]_vars

\* the statement holds for the compactions that run while rollbacks_ is empty
C21_NoRollback ==
    [][(CompactionInstalls /\ rollbacks_ = {}) =>
          \A key \in Keys : \A snapshot \in ReadPoints :
              ReadAt(key, snapshot)' = ReadAt(key, snapshot)]_vars

(***************************************************************************)
(* One run of DBImpl::ParallelCompaction with its sub-compactions as       *)
(* threads, next to a background task that flushes the immutable memtable  *)
(* (SpecParallel).  The input files of the compaction are the table files  *)
(* 1 and 2; every other file number comes from NewFileNumber.              *)
(***************************************************************************)
SubCompactions == 1..NumSub
\* the threads that can call CompactMemTable: the sub-compactions and the
\* background task 0
FlushThreads == {0} \cup SubCompactions
InputFiles == {1, 2}
ParInputs ==
    {SortedEntries({[key |-> k[n], seq |-> n, type |-> kTypeValue] : n \in 1..ParEntries}) :
        k \in [1..ParEntries -> 1..CompactKeys]}
NoFlush == [pc |-> "idle", number |-> 0]
\* the outcomes of a step of this part that writes a file or the manifest
ParOutcomes == {OK, IOError, IOPermissionDenied}
ParOptions == [drop_base_level_del |-> FALSE, base_keys |-> {}, strat_drop |-> {}, bad |-> 0]

ParFrame ==
    UNCHANGED <<compactVars, recoverVars, nodeVars, cacheVars, metaVars, gcVars,
                shardVars, limiterVars, shutVars, lastVars>>
\* the variables of the engine that no step of this part changes
ParEngineRest ==
    UNCHANGED <<writerVars, memOf, is_writting_mem_, applied, verVars, snapVars,
                bg_error_, consecutive_compaction_errors_, paranoid_checks,
                failuresLeft, permStored, boundExceeded, taskVars, readVars, shutting_down_>>

\* BackgroundCompaction has picked a compaction of the files 1 and 2
InitParallel ==
    /\ EngineStart /\ failuresLeft = 0 /\ ~paranoid_checks
    /\ CompactIdle /\ RecoverIdle /\ NodeIdle /\ CacheIdle /\ MetaIdle
    /\ GcIdle /\ ShardIdle /\ LimiterIdle /\ ShutIdle /\ LastIdle
    /\ pmain = "ready"
    /\ pinput \in ParInputs
    /\ pbound \in 1..CompactKeys
    /\ psmallest = 0
    /\ wk = [i \in SubCompactions |->
                [pc |-> "idle", pos |-> 1, st |-> CompactLoopInit, status |-> OK, number |-> 0,
                 saw |-> FALSE]]
    /\ pstatus = OK
    /\ pending_outputs_ = {}
    /\ next_file_number_ = 3
    /\ dfiles = InputFiles
    /\ vfiles = InputFiles
    /\ fl = [x \in FlushThreads |-> NoFlush]
    /\ dof = [filenames |-> {}, live |-> {}]
    /\ pedits = 0
    /\ shardsAtInstall = {}
    /\ deletedLive = {}
    /\ keptRolledBack = {}
    /\ pw = "idle"
    /\ addedToImm = FALSE

\* lines 1258-1289: smallest_snapshot is read, the sub-compactions are
\* generated and started
ParStart ==
    /\ pmain = "ready"
    /\ psmallest' = SmallestSnapshot
    /\ wk' = [i \in SubCompactions |-> [wk[i] EXCEPT !.pc = "loop"]]
    /\ pmain' = "workers"
    /\ UNCHANGED <<pinput, pbound, pstatus, pending_outputs_, next_file_number_, dfiles,
                   vfiles, fl, dof, pedits, shardsAtInstall, deletedLive, keptRolledBack, pw, addedToImm>>
    /\ UNCHANGED <<mem_, imm_, being_flushed>>
    /\ ParEngineRest /\ ParFrame

\* the entries the i-th sub-compaction reads: [sub_compact_start_, sub_compact_end_)
ShardInput(i) ==
    IF i = 1 THEN SubCompactionInput(pinput, 0, pbound)
    ELSE SubCompactionInput(pinput, pbound, kMaxSequenceNumber)

\* a worker that never looks at rollbacks_ (mutation of RollbacksSeen)
RollbacksSeen_None == {}
\* line 1557: the worker reads rollbacks_ at each entry
RollbacksSeen == rollbacks_

\* HandleCompactionWork lines 1512-1643: one iteration of the loop; the
\* first entry that is kept opens the output file (OpenCompactionOutputFile)
ShardStep(i) ==
    /\ pmain = "workers" /\ wk[i].pc = "loop" /\ fl[i].pc = "idle"
    /\ wk[i].pos <= Len(ShardInput(i))
    /\ ~shutting_down_
    /\ LET e == ShardInput(i)[wk[i].pos]
           st2 == CompactLoopStep(wk[i].st, e, psmallest, RollbacksSeen, ParOptions)
           kept == Len(st2.out) > Len(wk[i].st.out)
           open == kept /\ wk[i].number = 0
           n == next_file_number_
       IN  /\ open => n <= MaxFileNumber
           /\ \E s \in (IF open THEN ParOutcomes ELSE {OK}) :
                 /\ wk' = [wk EXCEPT ![i] =
                              IF s = OK
                              THEN [@ EXCEPT !.pos = @ + 1, !.st = st2,
                                             !.number = IF open THEN n ELSE @]
                              ELSE [@ EXCEPT !.pc = "done", !.status = s, !.number = n]]
                 /\ dfiles' = IF open /\ s = OK THEN dfiles \cup {n} ELSE dfiles
           /\ next_file_number_' = IF open THEN n + 1 ELSE n
           /\ pending_outputs_' = IF open THEN pending_outputs_ \cup {n}
                                  ELSE pending_outputs_
           /\ keptRolledBack' = IF kept /\ RollbackDrop(e.seq, rollbacks_)
                                THEN keptRolledBack \cup {e.seq} ELSE keptRolledBack
    /\ UNCHANGED <<pmain, pinput, pbound, psmallest, pstatus, vfiles, fl, dof, pedits,
                   shardsAtInstall, deletedLive, pw, addedToImm>>
    /\ UNCHANGED <<mem_, imm_, being_flushed>>
    /\ ParEngineRest /\ ParFrame

\* a worker that ends as if the flag were clear (mutation of ExitStatus)
ExitStatus_FlagIgnored(sd, s) == s
\* lines 1645-1650: a worker that finds shutting_down_ set ends with
\* IOError("Deleting DB during compaction") and does not finish its output
\* file; otherwise its Status is that of FinishCompactionOutputFile
ExitStatus(sd, s) == IF sd THEN IOError ELSE s

\* HandleCompactionWork lines 1512 and 1645-1658: the loop has ended, at the
\* end of the input or because shutting_down_ is set; saw records that the
\* worker has read the flag as set
ShardExit(i) ==
    /\ pmain = "workers" /\ wk[i].pc = "loop" /\ fl[i].pc = "idle"
    /\ wk[i].pos > Len(ShardInput(i)) \/ shutting_down_
    /\ \E s \in (IF ~shutting_down_ /\ wk[i].number # 0 THEN ParOutcomes ELSE {OK}) :
          /\ wk' = [wk EXCEPT ![i] =
                       [@ EXCEPT !.pc = "done",
                                 !.status = ExitStatus(shutting_down_, s),
                                 !.saw = shutting_down_]]
    /\ UNCHANGED <<pmain, pinput, pbound, psmallest, pstatus, pending_outputs_,
                   next_file_number_, dfiles, vfiles, fl, dof, pedits, shardsAtInstall,
                   deletedLive, keptRolledBack, pw, addedToImm>>
    /\ UNCHANGED <<mem_, imm_, being_flushed>>
    /\ ParEngineRest /\ ParFrame

\* the threads a join that waits for the last sub-compaction only would wait
\* for (mutation of JoinedShards)
JoinedShards_LastOnly == {NumSub}
\* lines 1286-1293: the last sub-compaction runs in the caller's thread and
\* the threads of the others are joined
JoinedShards == SubCompactions

\* lines 1295-1310: the Status of the compaction is the first Status of a
\* sub-compaction that is not ok
RECURSIVE MergedStatus(_)
MergedStatus(i) ==
    IF i > NumSub THEN OK
    ELSE IF wk[i].status # OK THEN wk[i].status
    ELSE MergedStatus(i + 1)

\* the file numbers in the outputs of the sub-compactions
OutputNumbers == {wk[i].number : i \in SubCompactions} \ {0}
\* InstallCompactionResults lines 1457-1461: the outputs with entries
OutputsWithEntries ==
    {wk[i].number : i \in {j \in SubCompactions : wk[j].number # 0 /\ wk[j].st.out # <<>>}}

\* lines 1326-1343: the pending outputs of all sub-compactions are erased;
\* DeleteObsoleteFiles is called unless the Status is permission-denied and
\* returns at once when bg_error_ is set
AfterCleanup(status) ==
    IF IsIOPermissionDenied(status) \/ bg_error_ # OK THEN "done" ELSE "dof_list"

\* lines 1291-1319: the sub-compactions have been joined; if all are ok the
\* version edit is handed to LogAndApply, which releases the mutex
ParJoin ==
    /\ pmain = "workers"
    /\ \A i \in JoinedShards : wk[i].pc = "done"
    /\ pstatus' = MergedStatus(1)
    /\ IF MergedStatus(1) = OK
       THEN /\ pmain' = "install"
            /\ UNCHANGED pending_outputs_
       ELSE /\ pmain' = AfterCleanup(MergedStatus(1))
            /\ pending_outputs_' = pending_outputs_ \ OutputNumbers
    /\ UNCHANGED <<pinput, pbound, psmallest, wk, next_file_number_, dfiles, vfiles, fl,
                   dof, pedits, shardsAtInstall, deletedLive, keptRolledBack, pw, addedToImm>>
    /\ UNCHANGED <<mem_, imm_, being_flushed>>
    /\ ParEngineRest /\ ParFrame

\* InstallCompactionResults line 1481 and ParallelCompaction lines 1320-1343:
\* LogAndApply has returned; one edit deletes the input files and adds the
\* outputs of all sub-compactions
ParInstalled ==
    /\ pmain = "install"
    /\ \E s \in ParOutcomes :
          /\ pstatus' = s
          /\ vfiles' = IF s = OK THEN (vfiles \ InputFiles) \cup OutputsWithEntries
                                 ELSE vfiles
          /\ pedits' = IF s = OK THEN pedits + 1 ELSE pedits
          /\ shardsAtInstall' = IF s = OK THEN {i \in SubCompactions : wk[i].pc = "done"}
                                          ELSE shardsAtInstall
          /\ pmain' = AfterCleanup(s)
    /\ pending_outputs_' = pending_outputs_ \ OutputNumbers
    /\ UNCHANGED <<pinput, pbound, psmallest, wk, next_file_number_, dfiles, fl, dof,
                   deletedLive, keptRolledBack, pw, addedToImm>>
    /\ UNCHANGED <<mem_, imm_, being_flushed>>
    /\ ParEngineRest /\ ParFrame

\* DeleteObsoleteFiles lines 345-348: GetChildren, outside the mutex
DofList ==
    /\ pmain = "dof_list"
    /\ dof' = [filenames |-> dfiles, live |-> {}]
    /\ pmain' = "dof_live"
    /\ UNCHANGED <<pinput, pbound, psmallest, wk, pstatus, pending_outputs_,
                   next_file_number_, dfiles, vfiles, fl, pedits, shardsAtInstall,
                   deletedLive, keptRolledBack, pw, addedToImm>>
    /\ UNCHANGED <<mem_, imm_, being_flushed>>
    /\ ParEngineRest /\ ParFrame

\* lines 350-352: the live set is pending_outputs_ and the files of the
\* live versions
DofLive ==
    /\ pmain = "dof_live"
    /\ dof' = [dof EXCEPT !.live = pending_outputs_ \cup vfiles]
    /\ pmain' = "dof_delete"
    /\ UNCHANGED <<pinput, pbound, psmallest, wk, pstatus, pending_outputs_,
                   next_file_number_, dfiles, vfiles, fl, pedits, shardsAtInstall,
                   deletedLive, keptRolledBack, pw, addedToImm>>
    /\ UNCHANGED <<mem_, imm_, being_flushed>>
    /\ ParEngineRest /\ ParFrame

\* lines 364-422: a listed table file that is not in the live set is
\* deleted; the mutex is released around each DeleteFile
DofDelete(f) ==
    /\ pmain = "dof_delete"
    /\ f \in dof.filenames \ dof.live
    /\ dfiles' = dfiles \ {f}
    /\ dof' = [dof EXCEPT !.filenames = @ \ {f}]
    /\ deletedLive' = IF f \in pending_outputs_ \cup vfiles
                      THEN deletedLive \cup {f} ELSE deletedLive
    /\ UNCHANGED <<pmain, pinput, pbound, psmallest, wk, pstatus, pending_outputs_,
                   next_file_number_, vfiles, fl, pedits, shardsAtInstall,
                   keptRolledBack, pw, addedToImm>>
    /\ UNCHANGED <<mem_, imm_, being_flushed>>
    /\ ParEngineRest /\ ParFrame

\* DeleteObsoleteFiles returns
DofEnd ==
    /\ pmain = "dof_delete"
    /\ dof.filenames \ dof.live = {}
    /\ pmain' = "done"
    /\ UNCHANGED <<pinput, pbound, psmallest, wk, pstatus, pending_outputs_,
                   next_file_number_, dfiles, vfiles, fl, dof, pedits, shardsAtInstall,
                   deletedLive, keptRolledBack, pw, addedToImm>>
    /\ UNCHANGED <<mem_, imm_, being_flushed>>
    /\ ParEngineRest /\ ParFrame

\* MakeRoomForWrite lines 1925-1934: a writer makes mem_ the immutable
\* memtable (not empty) and creates a new mem_
SwitchMemTable ==
    /\ pw = "idle"
    /\ imm_ = 0
    /\ ~shutting_down_
    /\ mem_ < MaxMemTables
    /\ imm_' = mem_
    /\ mem_' = mem_ + 1
    /\ being_flushed' = FALSE
    /\ pw' = "insert"
    /\ UNCHANGED <<pmain, pinput, pbound, psmallest, wk, pstatus, pending_outputs_,
                   next_file_number_, dfiles, vfiles, fl, dof, pedits, shardsAtInstall,
                   deletedLive, keptRolledBack, addedToImm>>
    /\ ParEngineRest /\ ParFrame

\* MakeRoomForWrite lines 1911-1917: the head writer leaves the loop without
\* a switch (shutting_down_ is set, or mem_ has room)
RoomWithoutSwitch ==
    /\ pw = "idle"
    /\ pw' = "insert"
    /\ UNCHANGED <<pmain, pinput, pbound, psmallest, wk, pstatus, pending_outputs_,
                   next_file_number_, dfiles, vfiles, fl, dof, pedits, shardsAtInstall,
                   deletedLive, keptRolledBack, addedToImm>>
    /\ UNCHANGED <<mem_, imm_, being_flushed>>
    /\ ParEngineRest /\ ParFrame

\* Write lines 1868-1874: outside the mutex the batch is inserted into the
\* memtable that mem_ names
ParInsertInto ==
    /\ pw = "insert"
    /\ addedToImm' = (addedToImm \/ mem_ = imm_)
    /\ pw' = "idle"
    /\ UNCHANGED <<pmain, pinput, pbound, psmallest, wk, pstatus, pending_outputs_,
                   next_file_number_, dfiles, vfiles, fl, dof, pedits, shardsAtInstall,
                   deletedLive, keptRolledBack>>
    /\ UNCHANGED <<mem_, imm_, being_flushed>>
    /\ ParEngineRest /\ ParFrame

\* a thread is where it may call CompactMemTable: the background task in
\* BackgroundCompaction (line 1162), a sub-compaction at the head of an
\* iteration of its loop (lines 1514-1521)
MayFlush(x) ==
    IF x = 0 THEN TRUE
    ELSE pmain = "workers" /\ wk[x].pc = "loop" /\ wk[x].pos <= Len(ShardInput(x))

\* a caller that does not look at the mark (mutation of MayStartFlush)
MayStartFlush_Always(bf) == TRUE
\* lines 1162, 1516 and 790: a flush is started only for an immutable
\* memtable that is not marked being-flushed
MayStartFlush(bf) == ~bf

\* CompactMemTable lines 790-793 and WriteLevel0Table lines 734-749: the
\* memtable is marked, the file number is made pending and the table is
\* built outside the mutex
FlushBegin(x) ==
    /\ fl[x].pc = "idle"
    /\ MayFlush(x)
    /\ ~shutting_down_
    /\ imm_ # 0 /\ MayStartFlush(being_flushed)
    /\ next_file_number_ <= MaxFileNumber
    /\ being_flushed' = TRUE
    /\ fl' = [fl EXCEPT ![x] = [pc |-> "build", number |-> next_file_number_]]
    /\ pending_outputs_' = pending_outputs_ \cup {next_file_number_}
    /\ next_file_number_' = next_file_number_ + 1
    /\ UNCHANGED <<pmain, pinput, pbound, psmallest, wk, pstatus, dfiles, vfiles, dof,
                   pedits, shardsAtInstall, deletedLive, keptRolledBack, pw, addedToImm>>
    /\ UNCHANGED <<mem_, imm_>>
    /\ ParEngineRest /\ ParFrame

\* a flush that does not make the file pending again before LogAndApply
\* (mutation of PendingAfterBuild)
PendingAfterBuild_Erased(pending, number, ok) == pending \ {number}
\* WriteLevel0Table line 756 and CompactMemTable line 821, under one hold of
\* the mutex: the number is erased and, if the table was built, inserted again
PendingAfterBuild(pending, number, ok) ==
    IF ok THEN (pending \ {number}) \cup {number} ELSE pending \ {number}

\* WriteLevel0Table lines 750-779 and CompactMemTable lines 812-831:
\* BuildTable has returned; if it is ok LogAndApply is called, which
\* releases the mutex
FlushBuilt(x) ==
    /\ fl[x].pc = "build"
    /\ \E s \in ParOutcomes :
          /\ pending_outputs_' = PendingAfterBuild(pending_outputs_, fl[x].number, s = OK)
          /\ dfiles' = IF s = OK THEN dfiles \cup {fl[x].number} ELSE dfiles
          /\ fl' = [fl EXCEPT ![x] = IF s = OK THEN [@ EXCEPT !.pc = "apply"] ELSE NoFlush]
          /\ being_flushed' = (s = OK)
    /\ UNCHANGED <<pmain, pinput, pbound, psmallest, wk, pstatus, next_file_number_,
                   vfiles, dof, pedits, shardsAtInstall, deletedLive, keptRolledBack, pw, addedToImm>>
    /\ UNCHANGED <<mem_, imm_>>
    /\ ParEngineRest /\ ParFrame

\* CompactMemTable lines 831-845: LogAndApply has returned
FlushApplied(x) ==
    /\ fl[x].pc = "apply"
    /\ \E s \in ParOutcomes :
          /\ vfiles' = IF s = OK THEN vfiles \cup {fl[x].number} ELSE vfiles
          /\ imm_' = IF s = OK THEN 0 ELSE imm_
    /\ pending_outputs_' = pending_outputs_ \ {fl[x].number}
    /\ being_flushed' = FALSE
    /\ fl' = [fl EXCEPT ![x] = NoFlush]
    /\ UNCHANGED <<pmain, pinput, pbound, psmallest, wk, pstatus, next_file_number_,
                   dfiles, dof, pedits, shardsAtInstall, deletedLive, keptRolledBack, pw, addedToImm>>
    /\ UNCHANGED mem_
    /\ ParEngineRest /\ ParFrame

NextParallel ==
    \/ ParStart
    \/ \E i \in SubCompactions : ShardStep(i)
    \/ \E i \in SubCompactions : ShardExit(i)
    \/ ParJoin
    \/ ParInstalled
    \/ DofList
    \/ DofLive
    \/ \E f \in 1..MaxFileNumber : DofDelete(f)
    \/ DofEnd
    \/ SwitchMemTable
    \/ RoomWithoutSwitch
    \/ ParInsertInto
    \/ \E x \in FlushThreads : FlushBegin(x)
    \/ \E x \in FlushThreads : FlushBuilt(x)
    \/ \E x \in FlushThreads : FlushApplied(x)
    \/ \E a \in 0..(ParEntries - 1) : Rollback(a, ParEntries)
    \/ ShutdownBegin

SpecParallel == InitParallel /\ [][NextParallel]_vars

\* C22: the outputs of the sub-compactions are installed by one version
\* edit, applied after every sub-compaction has finished; if a
\* sub-compaction has failed no output is in the version, and once the
\* compaction has cleaned up no output file number is in pending_outputs_.
C22_OneEditAfterAllShards ==
    /\ pedits <= 1
    /\ pedits = 1 => shardsAtInstall = SubCompactions
    /\ (\E i \in SubCompactions : wk[i].pc = "done" /\ wk[i].status # OK) =>
          /\ pedits = 0
          /\ vfiles \cap OutputNumbers = {}
          /\ pmain \in {"dof_list", "dof_live", "dof_delete", "done"} =>
                 pending_outputs_ \cap OutputNumbers = {}

\* C22 happens: of two sub-compactions that both wrote an output file one
\* has failed, the compaction has cleaned up and both files are left out of
\* the version
C22_Witness ==
    /\ pmain = "done"
    /\ Cardinality(OutputNumbers) = 2
    /\ \E i, j \in SubCompactions : wk[i].status # OK /\ wk[j].status = OK
    /\ pedits = 0

(***************************************************************************)
(* Where the acknowledged writes are (SpecWrite).                          *)
(***************************************************************************)
\* Write has returned ok for the batch of w
Acknowledged(w) == wpc[w] = "done" /\ wstatus[w] = OK /\ wbatch[w].type # "null"

\* the entry of w is in the mutable memtable, in the immutable memtable or
\* in a table file of the current version
Contained(w) == (memOf[w] # 0 /\ memOf[w] \in {mem_, imm_}) \/ w \in sst

\* C23 as stated: at every moment each acknowledged write is contained in
\* the mutable memtable, the immutable memtable or a table file of the
\* current version.
C23_AsStated ==
    \A w \in Writes : Acknowledged(w) => Contained(w)

\* a step in which a flush ends without having applied its version edit
FlushFails ==
    \E t \in Tasks : task[t] = "flush" /\ task'[t] # "flush" /\ sst' = sst

\* C23, amended: a write is contained in the mutable memtable, the immutable
\* memtable or a table file of the current version when it is acknowledged,
\* and stays contained until a compaction that has its table file as input
\* installs outputs without its entry; the immutable memtable is released
\* only in the step that applies the version edit adding its writes, and a
\* failed flush keeps the immutable memtable and clears its being-flushed
\* mark.
C23_AckedWritesKept ==
    /\ [][\A w \in Writes : (Acknowledged(w)' /\ ~Acknowledged(w)) => Contained(w)']_vars
    /\ [][\A w \in Writes : (Contained(w) /\ ~Contained(w)') =>
                                (w \in sst /\ CompactionInstalls)]_vars
    /\ [][(imm_ # 0 /\ imm_' # imm_) =>
              {w \in Writes : memOf[w] = imm_} \subseteq sst']_vars
    /\ [][FlushFails => (imm_' = imm_ /\ imm_ # 0 /\ ~being_flushed')]_vars

\* C23 happens: a flush has failed, the immutable memtable is kept with an
\* acknowledged write in it and without the being-flushed mark, while
\* another acknowledged write is in a table file
C23_Witness ==
    /\ imm_ # 0 /\ ~being_flushed
    /\ \E t \in Tasks : task[t] \in {"failed", "sleep"}
    /\ \E w \in Writes : Acknowledged(w) /\ memOf[w] = imm_
    /\ \E w \in Writes : Acknowledged(w) /\ w \in sst

(***************************************************************************)
(* Flushes of the immutable memtable (SpecParallel).                       *)
(***************************************************************************)
\* the threads that are inside CompactMemTable past the mark
Flushing == {x \in FlushThreads : fl[x].pc # "idle"}

\* C24: at most one thread at a time flushes the immutable memtable, the
\* memtable is marked being-flushed while it does, no thread starts a flush
\* of a memtable that is marked, and nothing is inserted into the immutable
\* memtable.
C24_OneFlusher ==
    /\ [](/\ Cardinality(Flushing) <= 1
          /\ Flushing # {} => (imm_ # 0 /\ being_flushed)
          /\ ~addedToImm)
    /\ [][\A x \in FlushThreads :
             (fl[x].pc = "idle" /\ fl'[x].pc # "idle") => ~being_flushed]_vars

\* C24 happens: a sub-compaction is flushing the immutable memtable while
\* the background task is where it tests the mark, the other sub-compaction
\* is in its loop and the head writer is inserting
C24_Witness ==
    /\ \E i \in SubCompactions : fl[i].pc = "build"
    /\ \E j \in SubCompactions : fl[j].pc = "idle" /\ MayFlush(j)
    /\ fl[0].pc = "idle"
    /\ imm_ # 0 /\ being_flushed
    /\ pw = "insert"

(***************************************************************************)
(* Writes while level 0 is full.                                           *)
(***************************************************************************)
\* C25 as stated: while the level-0 file count is at or above the stop
\* trigger no write is inserted into the memtable.
C25_AsStated ==
    [][\A w \in Writes :
          memOf'[w] # memOf[w] => numL0 < kL0_StopWritesTrigger]_vars

\* an engine opened on a database that has level-0 files already
InitStall ==
    /\ \E n0 \in 0..kL0_StopWritesTrigger : EngineOpened(n0)
    /\ failuresLeft = 0 /\ ~paranoid_checks
    /\ CompactIdle /\ RecoverIdle /\ NodeIdle /\ MoreIdle

NextStall ==
    \/ \E w \in Writes : TableWrite(w)
    \/ \E w \in Writes : WriteNull(w)
    \/ \E w \in Writes : MakeRoomForWrite(w)
    \/ \E w \in Writes : InsertInto(w)
    \/ \E w \in Writes : WriteCommit(w)
    \/ \E t \in Tasks : BackgroundCall(t)
    \/ \E t \in Tasks : FlushDone(t)
    \/ \E t \in Tasks : CompactionDone(t)
    \/ ShutdownBegin

SpecStall == InitStall /\ [][NextStall]_vars

\* C25, amended: while the level-0 file count is at or above the stop
\* trigger no writer switches to a new memtable; a writer passes
\* MakeRoomForWrite at such a moment only if the memtable has room or
\* shutdown has begun, and its write is then inserted.
C25_FullLevel0StopsSwitch ==
    /\ [][mem_' # mem_ => numL0 < kL0_StopWritesTrigger]_vars
    /\ [][\A w \in Writes :
             (wpc[w] = "room" /\ wpc'[w] # "room" /\ wstatus'[w] = OK
              /\ numL0 >= kL0_StopWritesTrigger)
                 => (shutting_down_ \/ HasRoom(w))]_vars

\* C25 happens: the head writer finds the memtable full, no immutable
\* memtable and level 0 at the stop trigger, and waits, after another write
\* has been inserted
C25_Witness ==
    /\ numL0 >= kL0_StopWritesTrigger /\ ~shutting_down_ /\ ~HasBgError /\ imm_ = 0
    /\ \E w \in Writes : wpc[w] = "room" /\ IsHead(w) /\ ~MustDelay(w) /\ ~HasRoom(w)
    /\ \E w \in Writes : memOf[w] # 0

(***************************************************************************)
(* DeleteObsoleteFiles next to flushes and compactions (SpecParallel).     *)
(***************************************************************************)
\* C26: DeleteObsoleteFiles deletes no table file that is in a live version
\* or in pending_outputs_ when it is deleted, and every file of the live
\* versions is in the directory.
C26_LiveFilesKept ==
    /\ deletedLive = {}
    /\ vfiles \subseteq dfiles

\* C26 happens: DeleteObsoleteFiles has deleted the input files of the
\* installed compaction and has left the table of a running flush, which it
\* had listed while the number was pending and in no version
C26_Witness ==
    /\ pmain = "done" /\ pedits = 1
    /\ dfiles \cap InputFiles = {}
    /\ fl[0].pc = "apply"
    /\ fl[0].number \in dof.filenames \cap dfiles

(***************************************************************************)
(* Rollback next to a running compaction (SpecParallel).                   *)
(***************************************************************************)
\* the entries in the table files of the current version: the input of the
\* compaction until its edit is applied, the outputs of the sub-compactions
\* afterwards
RECURSIVE OutputsFrom(_)
OutputsFrom(i) == IF i > NumSub THEN <<>> ELSE wk[i].st.out \o OutputsFrom(i + 1)
ParVersion == IF pedits = 0 THEN pinput ELSE OutputsFrom(1)

\* Version::Get(options, lkey, ...) at the latest sequence with rb as
\* options.rollbacks: the sequence of the entry it returns, 0 for NotFound
ParGet(key, rb) ==
    LET V == {e \in Range(ParVersion) : e.key = key /\ ~RollbackDrop(e.seq, rb)}
    IN  IF V = {} THEN 0
        ELSE (CHOOSE e \in V : \A x \in V : x.seq <= e.seq).seq

\* C27 as stated: after Rollback has returned no read returns an entry of
\* the window (snapshot_seq, rollback_point], and no compaction keeps an
\* entry of the window that it processes afterwards.
C27_AsStated ==
    /\ \A key \in 1..CompactKeys : \A rb \in {{}, rollbacks_} :
           ~RollbackDrop(ParGet(key, rb), rollbacks_)
    /\ keptRolledBack = {}

\* C27, amended: after Rollback has returned, a read whose
\* ReadOptions::rollbacks holds the rollback returns no entry of the window
\* (snapshot_seq, rollback_point], and no compaction, a sub-compaction that
\* was running when Rollback was called included, keeps an entry of the
\* window that it processes afterwards.
C27_RollbackHides ==
    /\ \A key \in 1..CompactKeys : ~RollbackDrop(ParGet(key, rollbacks_), rollbacks_)
    /\ keptRolledBack = {}

\* C27 happens: a sub-compaction that had written an entry to its output
\* before Rollback was called has dropped an entry of the window afterwards
C27_Witness ==
    /\ pmain = "workers" /\ rollbacks_ # {}
    /\ \E i \in SubCompactions :
          /\ wk[i].st.out # <<>>
          /\ \E p \in 1..(wk[i].pos - 1) :
                /\ RollbackDrop(ShardInput(i)[p].seq, rollbacks_)
                /\ ShardInput(i)[p] \notin Range(wk[i].st.out)

(***************************************************************************)
(* Shutdown during a compaction (SpecParallel).                            *)
(***************************************************************************)
\* C28: a sub-compaction begins no iteration of its loop once the shutdown
\* flag is set, a sub-compaction that has read the flag as set ends with an
\* error, and the outputs of a compaction with such a sub-compaction are
\* never installed into the version set.
C28_ShutdownAbortsCompaction ==
    /\ [](\A i \in SubCompactions :
             wk[i].saw => /\ wk[i].status # OK
                          /\ pmain # "install"
                          /\ pedits = 0
                          /\ vfiles \cap OutputNumbers = {}
                          /\ pmain \notin {"ready", "workers"} => pstatus # OK)
    /\ [][shutting_down_ =>
             \A i \in SubCompactions :
                 wk[i].pc = "loop" => /\ wk'[i].pos = wk[i].pos
                                      /\ wk'[i].pc \in {"loop", "done"}
                                      /\ wk'[i].pc = "done" => wk'[i].saw]_vars

\* C28 happens: the compaction has ended after a sub-compaction that had
\* opened an output file read the flag as set, while the other one had ended
\* without an error
C28_Witness ==
    /\ pmain = "done"
    /\ \E i, j \in SubCompactions :
          /\ wk[i].saw /\ wk[i].number # 0 /\ wk[i].st.out # <<>>
          /\ ~wk[j].saw /\ wk[j].status = OK /\ wk[j].number # 0
    /\ pedits = 0

(***************************************************************************)
(* Shutdown1 and the background tasks (SpecQuiesce): the shutdown of       *)
(* SpecShutdown with background steps that fail, so that a task may be     *)
(* asleep before its retry when Shutdown1 is called.                       *)
(***************************************************************************)
InitQuiesce == InitEngine /\ failuresLeft = MaxFailures /\ ~paranoid_checks

NextQuiesce ==
    \/ \E w \in Writes : ShutdownWrite(w)
    \/ \E w \in Writes : MakeRoomForWrite(w)
    \/ \E w \in Writes : InsertInto(w)
    \/ \E w \in Writes : WriteCommit(w)
    \/ \E t \in Tasks : BackgroundCall(t)
    \/ \E t \in Tasks : FlushDone(t)
    \/ \E t \in Tasks : CompactionDone(t)
    \/ \E t \in Tasks : BackgroundBackoff(t)
    \/ \E t \in Tasks : BackgroundWake(t)
    \/ \E dump \in BOOLEAN : Shutdown1(dump)
    \/ Shutdown1AfterTasks
    \/ Shutdown1ImmDumped
    \/ Shutdown1Switch
    \/ Shutdown1Return
    \/ StopWrites
    \/ Shutdown2
    \/ Shutdown2Return

SpecQuiesce == InitQuiesce /\ [][NextQuiesce]_vars

\* Shutdown1 is past its wait for the background tasks
PastTaskWait == sdpc \notin {"kOpened", "wait_bg"}

\* C29: once Shutdown1 is past its wait, and so after it has returned, no
\* background task of the engine is queued, running or asleep; and from the
\* moment shutting_down_ is set no task is added to bg_compaction_tasks_.
C29_NoTaskAfterShutdown1 ==
    /\ [](PastTaskWait => \A t \in Tasks : task[t] = "free")
    /\ [][shutting_down_ => \A t \in Tasks : task[t] = "free" => task'[t] = "free"]_vars

\* C29 happens: Shutdown1 has returned without a dump while an immutable
\* memtable still waits for a flush, a background step has failed before, and
\* a write is under way
C29_Witness ==
    /\ sdpc = "kShutdown1"
    /\ imm_ # 0
    /\ failuresLeft < MaxFailures
    /\ \E w \in Writes : wpc[w] \notin {"idle", "done"}

(***************************************************************************)
(* Progress of the writer queue (SpecQueue): writes, background work and   *)
(* shutdown.  A writer that is outside a wait goes on running: InsertInto  *)
(* returns and the writer takes the mutex again.                           *)
(***************************************************************************)
InitQueue == InitEngine /\ failuresLeft = 0 /\ ~paranoid_checks

NextQueue ==
    \/ \E w \in Writes : TableWrite(w)
    \/ \E w \in Writes : WriteNull(w)
    \/ \E w \in Writes : MakeRoomForWrite(w)
    \/ \E w \in Writes : InsertInto(w)
    \/ \E w \in Writes : WriteCommit(w)
    \/ \E t \in Tasks : BackgroundCall(t)
    \/ \E t \in Tasks : FlushDone(t)
    \/ \E t \in Tasks : CompactionDone(t)
    \/ ShutdownBegin

SpecQueue ==
    /\ InitQueue
    /\ [][NextQueue]_vars
    /\ \A w \in Writes : WF_vars(InsertInto(w)) /\ WF_vars(WriteCommit(w))

\* the MakeRoomForWrite of every head writer returns
MakeRoomReturns == \A w \in Writes : (wpc[w] = "room") ~> (wpc[w] # "room")

\* C30: if the MakeRoomForWrite of every head writer returns, every writer
\* that is in the writer queue eventually is the front of the queue and
\* eventually has returned, the writers that wait on their cv included.
C30_WritersProgress ==
    MakeRoomReturns =>
        \A w \in Writes :
            /\ (w \in Range(writers_)) ~> (writers_ # <<>> /\ Head(writers_) = w)
            /\ (w \in Range(writers_)) ~> (wpc[w] = "done")

\* C30 happens: a writer waits on its cv behind a head that is about to
\* leave the queue, after another writer has left it
C30_Witness ==
    \E d, h, w \in Writes :
        /\ wpc[d] = "done"
        /\ writers_ # <<>> /\ Head(writers_) = h /\ wpc[h] = "commit"
        /\ wpc[w] = "wait" /\ w \in Range(writers_)

(***************************************************************************)
(* The Locked bit of a cache block (SpecCache).                            *)
(***************************************************************************)
\* the Reads that have set the Locked bit of the block and not yet cleared it
LockHolders ==
    {r \in Readers : rdpc[r] \in {"cache_read", "wait_cache_read", "dfs_read",
                                  "wait_dfs_read", "cache_fill", "wait_cache_fill"}}

\* C31: a Read puts the block on exactly one of its lists, by the state it
\* finds; at most one Read holds the Locked bit of the block, and the bit is
\* set exactly while one does; a Read that found the block Locked waits and
\* starts no SSD read, DFS read or fill; and while the holder of the bit
\* makes no step the state of the block does not change.
C31_OneLockHolder ==
    /\ [](/\ Cardinality(LockHolders) <= 1
          /\ (kCacheBlockLocked \in bflags) <=> (LockHolders # {})
          /\ \A r \in Readers :
                /\ rdpc[r] \notin {"idle"} => rdkind[r] \in {"valid", "miss", "locked"}
                /\ rdkind[r] = "locked" => r \notin LockHolders
                /\ rdpc[r] \in {"cache_read", "wait_cache_read"} => rdkind[r] = "valid"
                /\ rdpc[r] \in {"dfs_read", "wait_dfs_read", "cache_fill",
                                "wait_cache_fill"} => rdkind[r] = "miss"
                /\ rdpc[r] = "wait_locked" => rdkind[r] = "locked")
    /\ [][(LockHolders # {} /\ \A h \in LockHolders : rdpc'[h] = rdpc[h])
             => bflags' = bflags]_vars
    /\ [][\A r \in Readers :
             (rdpc[r] \in {"idle", "done"} /\ rdpc'[r] \notin {"idle", "done"}) =>
                 rdkind'[r] = (IF kCacheBlockLocked \in bflags THEN "locked"
                               ELSE IF kCacheBlockValid \in bflags THEN "valid"
                               ELSE "miss")]_vars

\* C31 happens: a Read holds the Locked bit for a DFS read of the block while
\* another Read of the block waits for the bit
C31_Witness ==
    \E r, q \in Readers :
        /\ rdpc[r] = "dfs_read" /\ rdkind[r] = "miss"
        /\ rdpc[q] = "wait_locked" /\ rdkind[q] = "locked"
        /\ kCacheBlockLocked \in bflags

(***************************************************************************)
(* Reads of a block whose transfer failed (SpecCache).                     *)
(***************************************************************************)
\* C32: a Read that is about to copy the buffer of the block to the user
\* while the Status of the block is an error (an SSD read, DFS read or fill
\* of the block failed, by this Read or by the Read it waited for) has taken
\* the error into its own Status, so that it is served by a DFS read of the
\* whole range and not from the buffer.
C32_AsStated ==
    \A r \in Readers : (rdpc[r] = "fill_user_mem" /\ bs # OK) => rds[r] # OK

(***************************************************************************)
(* Concurrent first calls of FileId for one path (SpecMeta).               *)
(***************************************************************************)
\* C33: as long as DeleteFile has not been called for the path, all the
\* calls of FileId for the path that have returned hold the same file id,
\* which is the one of the path's FNAME# record.
C33_AsStated ==
    dpc = "idle" =>
        \A o \in Openers :
            opc[o] \in {"opened", "cached"} => ofid[o] = fname_fid

C35_AsStated == metaValid => ssd = DfsBytes

(***************************************************************************)
(* Progress of the Reads of a block (SpecCacheFair).  The tasks of the     *)
(* bg_read_, bg_dfs_read_ and bg_fill_ pools run, and a Read whose wait    *)
(* has ended goes on: WaitOnClear tests the bit under block->mu and every  *)
(* Clear is followed by cv.SignalAll under the same mutex.                 *)
(***************************************************************************)
SpecCacheFair ==
    /\ InitCache
    /\ [][NextCache]_vars
    /\ \A r \in Readers :
          /\ WF_vars(HandleDfsRead(r)) /\ WF_vars(WaitDfsRead(r))
          /\ WF_vars(HandleCacheWrite(r)) /\ WF_vars(WaitCacheFill(r))
          /\ WF_vars(HandleCacheRead(r)) /\ WF_vars(WaitCacheRead(r))
          /\ WF_vars(WaitLocked(r))

\* C36: the Locked bit of the block is always cleared again, whether the SSD
\* read, the DFS read or the cache fill of its holder succeeded or failed,
\* and every Read that waits for the bit to clear eventually goes on.
C36_WaitersWoken ==
    /\ (kCacheBlockLocked \in bflags) ~> (kCacheBlockLocked \notin bflags)
    /\ \A r \in Readers : (rdpc[r] = "wait_locked") ~> (rdpc[r] # "wait_locked")

\* C36 happens: a Read waits for the Locked bit while the cache fill of the
\* holder has failed
C36_Witness ==
    \E h, w \in Readers :
        /\ rdpc[h] = "wait_cache_fill" /\ bs # OK
        /\ kCacheBlockLocked \in bflags
        /\ rdpc[w] = "wait_locked"

(***************************************************************************)
(* The file-id counter of the block cache (SpecFid): concurrent callers of *)
(* AllocFileId, which persists the counter through LockAndPut under the    *)
(* key FID#, and restarts of the server (LoadCache).  mu_ is held by the   *)
(* caller of AllocFileId and released inside LockAndPut.                   *)
(***************************************************************************)
Allocators == 1..NumAllocators
\* lock_key_ has no entry for FID#
NoFidLock == [wait_num |-> 0, done |-> FALSE]

\* a start that goes on from the persisted counter itself (mutation of
\* FidAfterLoad)
FidAfterLoad_NoSkip(prev) == prev
\* LoadCache line 1429: new_fid_ = prev_fid_ + options_.fid_batch_num
FidAfterLoad(prev) == prev + fid_batch_num

InitFid ==
    /\ prev_fid_ = 0 /\ fid_record = 0 /\ new_fid_ = FidAfterLoad(0)
    /\ lock_fid = NoFidLock /\ amu = 0
    /\ apc = [t \in Allocators |-> "idle"]
    /\ afid = [t \in Allocators |-> 0]
    /\ alockval = [t \in Allocators |-> 0]
    /\ aval = [t \in Allocators |-> 0]
    /\ granted = {} /\ grantedBefore = {} /\ reusedFid = FALSE
    /\ nAllocs = 0 /\ nRestarts = 0
    /\ putFailuresLeft \in 0..MaxPutFailures
    /\ fname_fid = 0 /\ lock_key_ = 0 /\ opc = 0 /\ ofid = 0
    /\ blockKeys = {} /\ dsRecords = {} /\ dpc = 0 /\ dfid = 0 /\ dlocked = FALSE
    /\ nOpens = 0
    /\ EngineIdle /\ CompactIdle /\ RecoverIdle /\ NodeIdle /\ CacheIdle
    /\ GcIdle /\ ShardIdle /\ LimiterIdle /\ ShutIdle /\ ParIdle
    /\ SplitIdle /\ WbIdle /\ FlashIdle

FidFrame ==
    UNCHANGED <<engineVars, compactVars, recoverVars, nodeVars, cacheVars,
                fname_fid, lock_key_, opc, ofid, blockKeys, dsRecords, dpc, dfid,
                dlocked, nOpens, gcVars, shardVars, limiterVars, shutVars, parVars,
                splitVars, wbVars, flashVars>>

\* FileId lines 1530-1531 and AllocFileId line 1490: the caller takes mu_
\* and fid = ++new_fid_
AllocBegin(t) ==
    /\ apc[t] = "idle" /\ amu = 0
    /\ nAllocs < MaxAllocs
    /\ nAllocs' = nAllocs + 1
    /\ amu' = t
    /\ new_fid_' = AllocFileId
    /\ afid' = [afid EXCEPT ![t] = AllocFileId]
    /\ apc' = [apc EXCEPT ![t] = "loop"]
    /\ UNCHANGED <<prev_fid_, fid_record, lock_fid, alockval, aval, granted,
                   grantedBefore, reusedFid, nRestarts, putFailuresLeft>>
    /\ FidFrame

\* AllocFileId lines 1491-1514 and LockAndPut lines 1223-1249: the test of
\* the loop; the batch is used up and the caller takes the lock of FID# or
\* joins its waiters, or the fid is returned
AllocLoop(t) ==
    /\ apc[t] = "loop" /\ amu = t
    /\ amu' = 0
    /\ IF new_fid_ - prev_fid_ >= fid_batch_num
       THEN /\ alockval' = [alockval EXCEPT ![t] = new_fid_]
            /\ IF lock_fid # NoFidLock
               THEN /\ lock_fid' = [lock_fid EXCEPT !.wait_num = @ + 1]
                    /\ apc' = [apc EXCEPT ![t] = "wait"]
               ELSE /\ lock_fid' = [wait_num |-> 1, done |-> FALSE]
                    /\ apc' = [apc EXCEPT ![t] = "put"]
            /\ UNCHANGED <<granted, reusedFid>>
       ELSE /\ granted' = granted \cup {afid[t]}
            /\ reusedFid' = (reusedFid \/ afid[t] \in granted)
            /\ apc' = [apc EXCEPT ![t] = "idle"]
            /\ UNCHANGED <<alockval, lock_fid>>
    /\ UNCHANGED <<new_fid_, prev_fid_, fid_record, afid, aval, grantedBefore,
                   nAllocs, nRestarts, putFailuresLeft>>
    /\ FidFrame

\* PutContentAfterLock lines 1301-1306 for FID#: db_->Put outside mu_
PutFidRecord(t) ==
    /\ apc[t] = "put"
    /\ \E ok \in (IF putFailuresLeft > 0 THEN {TRUE, FALSE} ELSE {TRUE}) :
          /\ fid_record' = IF ok THEN alockval[t] ELSE fid_record
          /\ aval' = [aval EXCEPT ![t] = IF ok THEN alockval[t] ELSE 0]
          /\ putFailuresLeft' = IF ok THEN putFailuresLeft ELSE putFailuresLeft - 1
    /\ apc' = [apc EXCEPT ![t] = "put_lock"]
    /\ UNCHANGED <<new_fid_, prev_fid_, lock_fid, amu, afid, alockval, granted,
                   grantedBefore, reusedFid, nAllocs, nRestarts>>
    /\ FidFrame

\* LockAndPut lines 1251-1267 and AllocFileId lines 1503-1505: the writer
\* takes mu_ again; with no waiter it erases the entry and goes on, else it
\* releases mu_ to signal the waiters
PutUnlock(t) ==
    /\ apc[t] = "put_lock" /\ amu = 0
    /\ IF lock_fid.wait_num = 1
       THEN /\ lock_fid' = NoFidLock
            /\ amu' = t
            /\ prev_fid_' = IF aval[t] # 0 THEN aval[t] ELSE prev_fid_
            /\ apc' = [apc EXCEPT ![t] = "loop"]
       ELSE /\ lock_fid' = [wait_num |-> lock_fid.wait_num - 1, done |-> TRUE]
            /\ amu' = 0
            /\ prev_fid_' = prev_fid_
            /\ apc' = [apc EXCEPT ![t] = "put_relock"]
    /\ UNCHANGED <<new_fid_, fid_record, afid, alockval, aval, granted,
                   grantedBefore, reusedFid, nAllocs, nRestarts, putFailuresLeft>>
    /\ FidFrame

\* LockAndPut line 1266 and AllocFileId lines 1503-1505: the writer has
\* signalled and takes mu_ again
PutRelock(t) ==
    /\ apc[t] = "put_relock" /\ amu = 0
    /\ amu' = t
    /\ prev_fid_' = IF aval[t] # 0 THEN aval[t] ELSE prev_fid_
    /\ apc' = [apc EXCEPT ![t] = "loop"]
    /\ UNCHANGED <<new_fid_, fid_record, lock_fid, afid, alockval, aval, granted,
                   grantedBefore, reusedFid, nAllocs, nRestarts, putFailuresLeft>>
    /\ FidFrame

\* LockAndPut line 1229 and GetContentAfterWait lines 1276-1278: the waiter
\* is signalled and reads FID# outside mu_
GetFidRecord(t) ==
    /\ apc[t] = "wait" /\ lock_fid.done
    /\ aval' = [aval EXCEPT ![t] = fid_record]
    /\ apc' = [apc EXCEPT ![t] = "wait_lock"]
    /\ UNCHANGED <<new_fid_, prev_fid_, fid_record, lock_fid, amu, afid, alockval,
                   granted, grantedBefore, reusedFid, nAllocs, nRestarts,
                   putFailuresLeft>>
    /\ FidFrame

\* LockAndPut lines 1232-1244 and AllocFileId lines 1503-1505: the waiter
\* takes mu_ again; the last one erases the entry
WaitUnlock(t) ==
    /\ apc[t] = "wait_lock" /\ amu = 0
    /\ amu' = t
    /\ lock_fid' = IF lock_fid.wait_num = 1 THEN NoFidLock
                   ELSE [lock_fid EXCEPT !.wait_num = @ - 1]
    /\ prev_fid_' = IF aval[t] # 0 THEN aval[t] ELSE prev_fid_
    /\ apc' = [apc EXCEPT ![t] = "loop"]
    /\ UNCHANGED <<new_fid_, fid_record, afid, alockval, aval, granted,
                   grantedBefore, reusedFid, nAllocs, nRestarts, putFailuresLeft>>
    /\ FidFrame

\* the server stops at any point and starts again: LoadCache lines 1420-1429
LoadCache ==
    /\ nRestarts < MaxRestarts
    /\ nRestarts' = nRestarts + 1
    /\ prev_fid_' = fid_record
    /\ new_fid_' = FidAfterLoad(fid_record)
    /\ lock_fid' = NoFidLock /\ amu' = 0
    /\ apc' = [t \in Allocators |-> "idle"]
    /\ afid' = [t \in Allocators |-> 0]
    /\ alockval' = [t \in Allocators |-> 0]
    /\ aval' = [t \in Allocators |-> 0]
    /\ grantedBefore' = granted
    /\ UNCHANGED <<fid_record, granted, reusedFid, nAllocs, putFailuresLeft>>
    /\ FidFrame

NextFid ==
    \/ \E t \in Allocators : AllocBegin(t)
    \/ \E t \in Allocators : AllocLoop(t)
    \/ \E t \in Allocators : PutFidRecord(t)
    \/ \E t \in Allocators : PutUnlock(t)
    \/ \E t \in Allocators : PutRelock(t)
    \/ \E t \in Allocators : GetFidRecord(t)
    \/ \E t \in Allocators : WaitUnlock(t)
    \/ LoadCache

SpecFid == InitFid /\ [][NextFid]_vars

\* C37: no file id is handed out twice, within a run of the server and over
\* its restarts; an id handed out after a restart is greater than every id
\* handed out before it; and every id handed out is below the persisted FID#
\* counter plus one batch, which is where the ids of the next run begin.
C37_FidsNeverReused ==
    /\ ~reusedFid
    /\ \A g \in granted \ grantedBefore : \A h \in grantedBefore : g > h
    /\ \A g \in granted : g < fid_record + fid_batch_num

\* C37 happens: after a restart an id has been handed out to a thread that
\* waited for another thread's write of FID#, and ids were handed out before
\* the restart
C37_Witness ==
    /\ nRestarts > 0 /\ grantedBefore # {}
    /\ granted # grantedBefore
    /\ \E t \in Allocators :
          /\ apc[t] = "idle" /\ afid[t] \in granted
          /\ aval[t] # 0 /\ aval[t] # alockval[t]

(***************************************************************************)
(* The split of a Read into blocks (SpecSplit): one call of                *)
(* BlockCacheRandomAccessFile::Read(offset, n) with every block read       *)
(* without error.  A data_block has block_size bytes.                      *)
(***************************************************************************)
\* Read lines 749-750
ReadBeginBlock(offset) == offset \div block_size
ReadEndBlock(offset, n) == (offset + n) \div block_size

\* Read lines 916-922: the bytes of the data_block of block idx that are
\* copied, after remove_prefix for the first and remove_suffix for the last
DataBlockSize(idx, offset, n) ==
    LET begin == ReadBeginBlock(offset)
        end == ReadEndBlock(offset, n)
        prefix == IF idx = begin THEN offset % block_size ELSE 0
        suffix == IF idx = end THEN block_size - ((n + offset) % block_size) ELSE 0
    IN  block_size - prefix - suffix

\* the blocks that overlap [offset, offset + n), n > 0
OverlappingBlocks(offset, n) ==
    (offset \div block_size) .. ((offset + n - 1) \div block_size)

InitSplit ==
    /\ roffset \in 0..MaxOffset /\ rn \in 0..MaxReadSize
    /\ spc = "queue"
    /\ block_idx = ReadBeginBlock(roffset)
    /\ block_queue = <<>> /\ msize = 0
    /\ EngineIdle /\ CompactIdle /\ RecoverIdle /\ NodeIdle /\ CacheIdle /\ MetaIdle
    /\ GcIdle /\ ShardIdle /\ LimiterIdle /\ ShutIdle /\ ParIdle
    /\ FidIdle /\ WbIdle /\ FlashIdle

SplitFrame ==
    UNCHANGED <<engineVars, compactVars, recoverVars, nodeVars, cacheVars, metaVars,
                gcVars, shardVars, limiterVars, shutVars, parVars, fidVars, wbVars,
                flashVars>>

\* Read lines 764-788: GetAndAllocBlock of the next block, which goes to
\* c_valid, c_miss (DFS read and fill) or c_locked
QueueBlock ==
    /\ spc = "queue"
    /\ block_idx <= ReadEndBlock(roffset, rn)
    /\ block_queue' = Append(block_queue, block_idx)
    /\ block_idx' = block_idx + 1
    /\ UNCHANGED <<roffset, rn, spc, msize>>
    /\ SplitFrame

\* Read lines 794-912: the blocks are read, filled and waited for
BlocksReady ==
    /\ spc = "queue"
    /\ block_idx > ReadEndBlock(roffset, rn)
    /\ spc' = "fill"
    /\ block_idx' = ReadBeginBlock(roffset)
    /\ UNCHANGED <<roffset, rn, block_queue, msize>>
    /\ SplitFrame

\* Read lines 914-924: the bytes of the next block are copied to scratch
CopyBlock ==
    /\ spc = "fill"
    /\ block_idx <= ReadEndBlock(roffset, rn)
    /\ msize' = msize + DataBlockSize(block_idx, roffset, rn)
    /\ block_idx' = block_idx + 1
    /\ UNCHANGED <<roffset, rn, spc, block_queue>>
    /\ SplitFrame

\* Read lines 934-935: *result = Slice(scratch, n)
SplitDone ==
    /\ spc = "fill"
    /\ block_idx > ReadEndBlock(roffset, rn)
    /\ spc' = "done"
    /\ UNCHANGED <<roffset, rn, block_idx, block_queue, msize>>
    /\ SplitFrame

NextSplit == QueueBlock \/ BlocksReady \/ CopyBlock \/ SplitDone

SpecSplit == InitSplit /\ [][NextSplit]_vars

\* C38: a Read of [offset, offset + n), n > 0, looks up exactly the blocks
\* that overlap the range, from offset / block_size to
\* (offset + n - 1) / block_size, and no block outside it, and the result it
\* assembles has n bytes.
C38_AsStated ==
    rn > 0 =>
       /\ Range(block_queue) \subseteq OverlappingBlocks(roffset, rn)
       /\ spc = "done" =>
             /\ Range(block_queue) = OverlappingBlocks(roffset, rn)
             /\ msize = rn

(***************************************************************************)
(* Batch requests (SpecBatch): a batch read split into shards, as above,   *)
(* next to a batch write, which WriteTablet splits into one task for each  *)
(* tablet of its rows and one for the rows no tablet holds.  TabletIO::    *)
(* Write either refuses the task or takes it and calls the callback once,  *)
(* later, from the writer thread of the tablet.                            *)
(***************************************************************************)
WRows == 1..NumWriteRows
WTablets == 0..NumWriteTablets
\* WriteTabletTask::row_index_vec of the task of tablet k
RowIndexVec(k) == {i \in WRows : row_tablet[i] = k}
\* the row status a tablet reports for a mutation it took
WriteStatuses == {"kTabletNodeOk", "kRPCTimeout"}

\* a callback that answers the request whenever it has counted rows
\* (mutation of AllRowsDone)
AllRowsDone_Any(counter) == counter > 0
\* WriteTabletCallback line 690: row_done_counter->Add(index_num) ==
\* request->row_list_size()
AllRowsDone(counter) == counter = NumWriteRows

\* WriteTablet lines 622-651: the rows are put into the task of their tablet
\* and the status list of the response is reserved
WriteStart ==
    /\ row_tablet \in [WRows -> WTablets]
    /\ wtask = [k \in WTablets |-> IF RowIndexVec(k) = {} THEN "none" ELSE "queued"]
    /\ wsync = 0
    /\ wrow_status = [i \in WRows |-> "none"]
    /\ row_done_counter = 0 /\ wdone_runs = 0

InitBatch ==
    /\ ShardStart /\ WriteStart
    /\ EngineIdle /\ CompactIdle /\ RecoverIdle /\ NodeIdle /\ CacheIdle /\ MetaIdle
    /\ GcIdle /\ LimiterIdle /\ ShutIdle /\ ParIdle
    /\ FidIdle /\ SplitIdle /\ FlashIdle

WbFrame ==
    UNCHANGED <<engineVars, compactVars, recoverVars, nodeVars, cacheVars, metaVars,
                gcVars, shardVars, limiterVars, shutVars, parVars, fidVars, splitVars,
                flashVars>>

\* WriteTablet lines 653-668: the next task of tablet_task_map; without a
\* tablet, or when TabletIO::Write refuses, WriteTabletFail (671-680) sets
\* the status of every row of the task and calls the callback itself
DispatchTask(k) ==
    /\ wtask[k] = "queued" /\ wsync = 0
    /\ \A j \in WTablets : j < k => wtask[j] # "queued"
    /\ \E taken \in (IF k = 0 THEN {FALSE} ELSE BOOLEAN) :
          IF taken
          THEN /\ wtask' = [wtask EXCEPT ![k] = "pending"]
               /\ wsync' = wsync
          ELSE /\ wtask' = [wtask EXCEPT ![k] = "fail"]
               /\ wsync' = k + 1
    /\ UNCHANGED <<row_tablet, wrow_status, row_done_counter, wdone_runs>>
    /\ WbFrame

\* WriteTabletCallback lines 685-689: the status of each row of the task is
\* set in the response
CallbackSetStatus(k) ==
    /\ wtask[k] \in {"pending", "fail"}
    /\ \E st \in [RowIndexVec(k) -> WriteStatuses] :
          wrow_status' = [i \in WRows |->
                IF i \notin RowIndexVec(k) THEN wrow_status[i]
                ELSE IF wtask[k] = "fail"
                     THEN (IF k = 0 THEN "kKeyNotInRange" ELSE "kTabletNodeIsBusy")
                     ELSE st[i]]
    /\ wtask' = [wtask EXCEPT ![k] = "add"]
    /\ UNCHANGED <<row_tablet, wsync, row_done_counter, wdone_runs>>
    /\ WbFrame

\* WriteTabletCallback lines 690-699: the rows are counted, the callback of
\* the last task runs done, and the task is deleted
CallbackCount(k) ==
    /\ wtask[k] = "add"
    /\ row_done_counter' = row_done_counter + Cardinality(RowIndexVec(k))
    /\ wdone_runs' = IF AllRowsDone(row_done_counter') THEN wdone_runs + 1
                     ELSE wdone_runs
    /\ wtask' = [wtask EXCEPT ![k] = "done"]
    /\ wsync' = IF wsync = k + 1 THEN 0 ELSE wsync
    /\ UNCHANGED <<row_tablet, wrow_status>>
    /\ WbFrame

NextBatch ==
    \/ NextShard
    \/ \E k \in WTablets : DispatchTask(k)
    \/ \E k \in WTablets : CallbackSetStatus(k)
    \/ \E k \in WTablets : CallbackCount(k)

SpecBatch == InitBatch /\ [][NextBatch]_vars

\* C39: the completion callback of a batch write runs at most once, only
\* when every task has set the status of each of its rows, and it has run
\* when every task is done; the batch read is answered by the step that
\* counts its last shard, once, when every shard is done.
C39_CallbackOnceAfterAllTasks ==
    /\ [](/\ wdone_runs <= 1
          /\ wdone_runs = 1 =>
                /\ \A i \in WRows : wrow_status[i] # "none"
                /\ \A k \in WTablets : wtask[k] \in {"none", "done"}
          /\ (\A k \in WTablets : wtask[k] \in {"none", "done"}) => wdone_runs = 1
          /\ resp_status # "none" <=> \A s \in Shards : shpc[s] = "done")
    /\ [][resp_status # "none" => (resp_status' = resp_status /\ finished_' = finished_)]_vars

\* C39 happens: the write has been answered after a task without a tablet,
\* a task the tablet refused and a task whose rows timed out, and the read
\* has been answered with a time-out
C39_Witness ==
    /\ wdone_runs = 1
    /\ \E i, j \in WRows :
          /\ wrow_status[i] = "kKeyNotInRange"
          /\ wrow_status[j] \in {"kTabletNodeIsBusy", "kRPCTimeout"}
    /\ resp_status = "kRPCTimeout"

(***************************************************************************)
(* The copy of a remote file to the flash mirror (SpecFlash): the reads of *)
(* the file call ScheduleUpdateFlash, a thread of update_flash_threads_    *)
(* runs UpdateFlashFile.  The pool runs every task it holds, a retry after *)
(* update_flash_retry_interval_millis_, and CopyToLocal returns.           *)
(***************************************************************************)
\* a failure that leaves the priority as it is (mutation of HalvePriority)
HalvePriority_Kept(priority) == priority
\* UpdateFlashFile line 592: task.priority >>= 1
HalvePriority(priority) == priority \div 2

InitFlash ==
    /\ update_flash_waiting = FALSE /\ task_priority = 0 /\ uftask = "none"
    /\ demandPriority = 0 /\ failedCopies = 0
    /\ demandsLeft \in 1..MaxDemands
    /\ EngineIdle /\ CompactIdle /\ RecoverIdle /\ NodeIdle /\ CacheIdle /\ MetaIdle
    /\ GcIdle /\ ShardIdle /\ LimiterIdle /\ ShutIdle /\ ParIdle
    /\ FidIdle /\ SplitIdle /\ WbIdle

FlashFrame ==
    UNCHANGED <<engineVars, compactVars, recoverVars, nodeVars, cacheVars, metaVars,
                gcVars, shardVars, limiterVars, shutVars, parVars, fidVars, splitVars,
                wbVars>>

\* FlashEnv::ScheduleUpdateFlash (lines 549-571): a read of the file asks
\* for the copy; a new entry is scheduled, an entry that exists gets the
\* priority added
ScheduleUpdateFlash(priority) ==
    /\ demandsLeft > 0
    /\ demandsLeft' = demandsLeft - 1
    /\ IF ~update_flash_waiting
       THEN /\ update_flash_waiting' = TRUE
            /\ task_priority' = priority
            /\ uftask' = "scheduled"
       ELSE /\ task_priority' = task_priority + priority
            /\ UNCHANGED <<update_flash_waiting, uftask>>
    /\ demandPriority' = task_priority'
    /\ failedCopies' = 0
    /\ FlashFrame

\* UpdateFlashFile lines 573-575: a thread of the pool takes the task and
\* copies the file, outside update_flash_mutex_
CopyToLocal ==
    /\ uftask = "scheduled"
    /\ uftask' = "copying"
    /\ UNCHANGED <<update_flash_waiting, task_priority, demandPriority, failedCopies,
                   demandsLeft>>
    /\ FlashFrame

\* UpdateFlashFile lines 577-607: the copy has ended; after a failure the
\* priority is halved and the copy is scheduled again while it is positive
UpdateFlashFile ==
    /\ uftask = "copying"
    /\ \E ok \in BOOLEAN :
          IF ok
          THEN /\ update_flash_waiting' = FALSE
               /\ uftask' = "none"
               /\ UNCHANGED <<task_priority, failedCopies>>
          ELSE /\ task_priority' = HalvePriority(task_priority)
               /\ failedCopies' = failedCopies + 1
               /\ IF task_priority' > 0
                  THEN uftask' = "scheduled" /\ update_flash_waiting' = TRUE
                  ELSE uftask' = "none" /\ update_flash_waiting' = FALSE
    /\ UNCHANGED <<demandPriority, demandsLeft>>
    /\ FlashFrame

NextFlash ==
    \/ \E priority \in 0..MaxDemandPriority : ScheduleUpdateFlash(priority)
    \/ CopyToLocal
    \/ UpdateFlashFile

SpecFlash ==
    /\ InitFlash
    /\ [][NextFlash]_vars
    /\ WF_vars(CopyToLocal) /\ WF_vars(UpdateFlashFile)

\* C40: since the last read that asked for the copy, each failed copy has
\* halved the priority, so the failures number at most one more than the
\* times the priority of that moment can be halved; the copy is scheduled
\* again only with a positive priority; and the entry of the file leaves the
\* waiting set.
C40_RetriesBounded ==
    /\ [](/\ Pow2(failedCopies) <= 2 * Max(1, demandPriority)
          /\ update_flash_waiting => task_priority * Pow2(failedCopies) <= demandPriority
          /\ (update_flash_waiting /\ failedCopies > 0) => task_priority > 0
          /\ update_flash_waiting <=> uftask # "none")
    /\ update_flash_waiting ~> ~update_flash_waiting

\* C40 happens: the copy has been given up after more than one failure, with
\* no read left to ask for it
C40_Witness ==
    /\ ~update_flash_waiting /\ task_priority = 0
    /\ failedCopies >= 3
    /\ demandsLeft = 0

====
